---- MODULE Spec2Model ----
(***************************************************************************)
(* abstract_format: section segmentation (analyzers.py), sentence grouping *)
(* and formatting (formatters.py), the dispatch of documents to processors *)
(* (document_processor.py) and the command line (cli.py).                  *)
(*                                                                         *)
(* A text is a sequence of lexemes.  A lexeme is a word ("RESULTS", "We"), *)
(* a punctuation mark (":", ".", ",") or one whitespace character (" ").   *)
(* Every lexeme occupies one position: offsets, lengths and line widths    *)
(* count lexemes.  Two adjacent word lexemes form one word (there is no    *)
(* \b between them), exactly as two adjacent letters do in the source's    *)
(* strings.  Regular expressions of the source are translated to matchers  *)
(* over lexemes.                                                           *)
(***************************************************************************)
EXTENDS Integers, Sequences, FiniteSets, TLC

VARIABLES text, sents, fmt, line_width, nlp, ret, seen, processors, added, document, args

vars == <<text, sents, fmt, line_width, nlp, ret, seen, processors, added, document, args>>

(***************************************************************************)
(* Bounds                                                                  *)
(***************************************************************************)
\* longest text (in lexemes) handed to analyze_structure
MaxLen == 4

\* longest sentence list handed to the two groupers
MaxSents == 5

\* longest document (in sentences) handed to the two format_abstract methods
MaxDocSents == 4

\* the narrow line width, besides the default one
NarrowWidth == 3

\* number of calls on one formatter after which no further input is handed to it
MaxCalls == 3

\* number of add_processor calls made on one ScientificDocumentFormatter
MaxAdds == 2

(***************************************************************************)
(* Lexemes                                                                 *)
(***************************************************************************)
\* \s of the regular expressions, str.strip(), str.split()
Whitespace == {" ", "\n"}

\* characters that are not \w
NonWord ==
    Whitespace \cup {":", ".", ",", ";", "!", "?", "(", ")", "%", "+/-", "(x)", "<", ">", "=", "-",
                     "###", "**", "<h3>", "</h3>", "<strong>", "</strong>"}

IsSpace(t) == t \in Whitespace

IsWordLex(t) == t \notin NonWord

\* the word lexemes written in upper-case letters only (two letters or more)
UpperWords ==
    {"BACKGROUND", "INTRODUCTION", "PURPOSE", "AIM", "AIMS", "OBJECTIVE", "OBJECTIVES",
     "METHODS", "METHODOLOGY", "MATERIALS", "AND", "APPROACH", "PROCEDURE", "PROCEDURES",
     "RESULTS", "FINDINGS", "MAIN", "OUTCOMES", "CONCLUSION", "CONCLUSIONS",
     "SIGNIFICANCE", "IMPLICATIONS", "UNKNOWN", "MRI"}

\* the word lexemes written with a leading capital
CapitalWords ==
    {"Results", "We", "Our", "The", "This", "In", "To", "However", "Additionally",
     "Consequently", "Analysis", "Investigation", "Evaluation", "Acme", "Bolt"}

\* str.lower() / re.IGNORECASE on the lexemes that carry upper-case letters
LowerTable ==
    [t \in UpperWords \cup CapitalWords \cup {"A", "B", "C"}
     |-> CASE t = "BACKGROUND" -> "background"
           [] t = "INTRODUCTION" -> "introduction"
           [] t = "PURPOSE" -> "purpose"
           [] t = "AIM" -> "aim"
           [] t = "AIMS" -> "aims"
           [] t = "OBJECTIVE" -> "objective"
           [] t = "OBJECTIVES" -> "objectives"
           [] t = "METHODS" -> "methods"
           [] t = "METHODOLOGY" -> "methodology"
           [] t = "MATERIALS" -> "materials"
           [] t = "AND" -> "and"
           [] t = "APPROACH" -> "approach"
           [] t = "PROCEDURE" -> "procedure"
           [] t = "PROCEDURES" -> "procedures"
           [] t = "RESULTS" -> "results"
           [] t = "FINDINGS" -> "findings"
           [] t = "MAIN" -> "main"
           [] t = "OUTCOMES" -> "outcomes"
           [] t = "CONCLUSION" -> "conclusion"
           [] t = "CONCLUSIONS" -> "conclusions"
           [] t = "SIGNIFICANCE" -> "significance"
           [] t = "IMPLICATIONS" -> "implications"
           [] t = "UNKNOWN" -> "unknown"
           [] t = "Results" -> "results"
           [] t = "We" -> "we"
           [] t = "Our" -> "our"
           [] t = "The" -> "the"
           [] t = "This" -> "this"
           [] t = "In" -> "in"
           [] t = "To" -> "to"
           [] t = "However" -> "however"
           [] t = "Additionally" -> "additionally"
           [] t = "Consequently" -> "consequently"
           [] t = "Analysis" -> "analysis"
           [] t = "Investigation" -> "investigation"
           [] t = "Evaluation" -> "evaluation"
           [] t = "Acme" -> "acme"
           [] t = "Bolt" -> "bolt"
           [] t = "MRI" -> "mri"
           [] t = "A" -> "a"
           [] t = "B" -> "b"
           [] t = "C" -> "c"]

Lower(t) == IF t \in DOMAIN LowerTable THEN LowerTable[t] ELSE t

LowerSeq(s) == [k \in 1..Len(s) |-> Lower(s[k])]

\* text[a:b] with 0-based offsets, Python slice semantics (empty when b <= a)
Slice(s, a, b) ==
    LET lo == IF a < 0 THEN 0 ELSE a
        hi == IF b > Len(s) THEN Len(s) ELSE b
    IN  IF hi <= lo THEN <<>> ELSE SubSeq(s, lo + 1, hi)

RECURSIVE LStrip(_)
LStrip(s) == IF s # <<>> /\ IsSpace(Head(s)) THEN LStrip(Tail(s)) ELSE s

RECURSIVE RStrip(_)
RStrip(s) ==
    IF s # <<>> /\ IsSpace(s[Len(s)]) THEN RStrip(SubSeq(s, 1, Len(s) - 1)) ELSE s

\* str.strip()
Strip(s) == RStrip(LStrip(s))

\* whether s starts with the lexemes p, ignoring case
StartsWithI(s, p) ==
    /\ Len(p) <= Len(s)
    /\ \A j \in 1..Len(p) : Lower(s[j]) = Lower(p[j])

RECURSIVE Concat(_)
Concat(ss) == IF ss = <<>> THEN <<>> ELSE Head(ss) \o Concat(Tail(ss))

\* sep.join(parts)
RECURSIVE Join(_, _)
Join(sep, parts) ==
    IF parts = <<>> THEN <<>>
    ELSE IF Len(parts) = 1 THEN parts[1]
    ELSE parts[1] \o sep \o Join(sep, Tail(parts))

(***************************************************************************)
(* analyzers.py                                                            *)
(***************************************************************************)
SectionType ==
    {"background", "purpose", "objective", "methods", "approach", "procedure",
     "results", "outcomes", "conclusions", "significance", "unknown"}

\* SECTION_PATTERNS in dictionary order, one entry per pattern
SECTION_PATTERNS ==
    << [type |-> "background",   words |-> <<"BACKGROUND">>],
       [type |-> "background",   words |-> <<"INTRODUCTION">>],
       [type |-> "purpose",      words |-> <<"PURPOSE">>],
       [type |-> "purpose",      words |-> <<"AIM">>],
       [type |-> "purpose",      words |-> <<"AIMS">>],
       [type |-> "objective",    words |-> <<"OBJECTIVE">>],
       [type |-> "objective",    words |-> <<"OBJECTIVES">>],
       [type |-> "methods",      words |-> <<"METHODS">>],
       [type |-> "methods",      words |-> <<"METHODOLOGY">>],
       [type |-> "methods",      words |-> <<"MATERIALS", " ", "AND", " ", "METHODS">>],
       [type |-> "approach",     words |-> <<"APPROACH">>],
       [type |-> "procedure",    words |-> <<"PROCEDURE">>],
       [type |-> "procedure",    words |-> <<"PROCEDURES">>],
       [type |-> "results",      words |-> <<"RESULTS">>],
       [type |-> "results",      words |-> <<"FINDINGS">>],
       [type |-> "results",      words |-> <<"MAIN", " ", "RESULTS">>],
       [type |-> "outcomes",     words |-> <<"OUTCOMES">>],
       [type |-> "conclusions",  words |-> <<"CONCLUSION">>],
       [type |-> "conclusions",  words |-> <<"CONCLUSIONS">>],
       [type |-> "significance", words |-> <<"SIGNIFICANCE">>],
       [type |-> "significance", words |-> <<"IMPLICATIONS">>] >>

\* first index >= k of s that holds no whitespace (Len(s) + 1 when there is none)
RECURSIVE SkipSpace(_, _)
SkipSpace(s, k) == IF k <= Len(s) /\ IsSpace(s[k]) THEN SkipSpace(s, k + 1) ELSE k

\* the pattern with the punctuation mark required right after the keyword
HeaderMatchEndNoSpace(s, k, words) ==
    LET e == k + Len(words)
    IN  IF /\ (k = 1 \/ ~IsWordLex(s[k - 1]))
           /\ e <= Len(s)
           /\ \A j \in 1..Len(words) : Lower(s[k + j - 1]) = Lower(words[j])
           /\ s[e] \in {":", "."}
        THEN e + 1
        ELSE 0

\* pattern + r'\s*[:\.]' tried at index k (1-based), re.IGNORECASE:
\* the index after the match, or 0 when it does not match there
HeaderMatchEnd(s, k, words) ==
    LET e == k + Len(words)
        p == SkipSpace(s, e)
    IN  IF /\ (k = 1 \/ ~IsWordLex(s[k - 1]))
           /\ e - 1 <= Len(s)
           /\ \A j \in 1..Len(words) : Lower(s[k + j - 1]) = Lower(words[j])
           /\ p <= Len(s)
           /\ s[p] \in {":", "."}
        THEN p + 1
        ELSE 0

\* re.finditer(full_pattern, text): the matches of one pattern from index k on,
\* left to right, each search resuming after the previous match
RECURSIVE FindIter(_, _, _)
FindIter(s, k, pat) ==
    IF k > Len(s) THEN <<>>
    ELSE LET e == HeaderMatchEnd(s, k, pat.words)
         IN  IF e = 0 THEN FindIter(s, k + 1, pat)
             ELSE <<[section_type |-> pat.type, pos |-> k - 1,
                     header_text |-> SubSeq(s, k, e - 1)]>> \o FindIter(s, e, pat)

\* the loops over SECTION_PATTERNS started at the second pattern
RECURSIVE CollectHeadersSkipFirst(_, _)
CollectHeadersSkipFirst(s, n) ==
    IF n <= 1 THEN <<>>
    ELSE CollectHeadersSkipFirst(s, n - 1) \o FindIter(s, 1, SECTION_PATTERNS[n])

\* the loops over SECTION_PATTERNS: the matches in discovery order
RECURSIVE CollectHeaders(_, _)
CollectHeaders(s, n) ==
    IF n = 0 THEN <<>>
    ELSE CollectHeaders(s, n - 1) \o FindIter(s, 1, SECTION_PATTERNS[n])

\* list.sort(key=position): stable insertion of h into the sorted list hs
RECURSIVE InsertByPos(_, _)
InsertByPos(hs, h) ==
    IF hs = <<>> THEN <<h>>
    ELSE IF hs[Len(hs)].pos <= h.pos THEN Append(hs, h)
    ELSE Append(InsertByPos(SubSeq(hs, 1, Len(hs) - 1), h), hs[Len(hs)])

RECURSIVE SortByPos(_)
SortByPos(hs) ==
    IF hs = <<>> THEN <<>>
    ELSE InsertByPos(SortByPos(SubSeq(hs, 1, Len(hs) - 1)), hs[Len(hs)])

\* find_section_headers without headers.sort(): the matches in discovery order
FindHeadersUnsorted(s) == CollectHeaders(s, Len(SECTION_PATTERNS))

find_section_headers(s) == SortByPos(CollectHeaders(s, Len(SECTION_PATTERNS)))

\* _extract_sections that does not skip the header: content = text[start_pos:end_pos]
ExtractSectionsKeepHeader(s, headers) ==
    [i \in 1..Len(headers) |->
        LET start_pos == headers[i].pos
            end_pos   == IF i + 1 <= Len(headers) THEN headers[i + 1].pos ELSE Len(s)
        IN  [section_type |-> headers[i].section_type,
             content      |-> Strip(Slice(s, start_pos, end_pos)),
             start_pos    |-> start_pos,
             end_pos      |-> end_pos]]

_extract_sections(s, headers) ==
    [i \in 1..Len(headers) |->
        LET start_pos  == headers[i].pos
            end_pos    == IF i + 1 <= Len(headers) THEN headers[i + 1].pos ELSE Len(s)
            header_end == start_pos + Len(headers[i].header_text)
        IN  [section_type |-> headers[i].section_type,
             content      |-> Strip(Slice(s, header_end, end_pos)),
             start_pos    |-> start_pos,
             end_pos      |-> end_pos]]

\* len(text.split()): the maximal runs of lexemes that are not whitespace
WordCount(s) ==
    Cardinality({k \in 1..Len(s) : ~IsSpace(s[k]) /\ (k = 1 \/ IsSpace(s[k - 1]))})

\* len(re.findall(r'[.!?]+', text)): the maximal runs of sentence punctuation
SentenceCount(s) ==
    Cardinality({k \in 1..Len(s) :
        s[k] \in {".", "!", "?"} /\ (k = 1 \/ s[k - 1] \notin {".", "!", "?"})})

\* analyze_structure with the flag computed as len(headers) > 1
AnalyzeFlagOffByOne(s) ==
    LET headers == find_section_headers(s)
    IN  [total_length            |-> Len(s),
         word_count              |-> WordCount(s),
         sentence_count          |-> SentenceCount(s),
         has_structured_sections |-> Len(headers) > 1,
         section_headers         |-> headers,
         sections                |-> _extract_sections(s, headers)]

analyze_structure(s) ==
    LET headers == find_section_headers(s)
    IN  [total_length            |-> Len(s),
         word_count              |-> WordCount(s),
         sentence_count          |-> SentenceCount(s),
         has_structured_sections |-> Len(headers) > 0,
         section_headers         |-> headers,
         sections                |-> _extract_sections(s, headers)]

(***************************************************************************)
(* formatters.py: AbstractFormatter                                        *)
(***************************************************************************)
\* str.upper() of a SectionType value
Upper(label) ==
    CASE label = "background"   -> "BACKGROUND"
      [] label = "purpose"      -> "PURPOSE"
      [] label = "objective"    -> "OBJECTIVE"
      [] label = "methods"      -> "METHODS"
      [] label = "approach"     -> "APPROACH"
      [] label = "procedure"    -> "PROCEDURE"
      [] label = "results"      -> "RESULTS"
      [] label = "outcomes"     -> "OUTCOMES"
      [] label = "conclusions"  -> "CONCLUSIONS"
      [] label = "significance" -> "SIGNIFICANCE"
      [] label = "unknown"      -> "UNKNOWN"

\* number of letters an upper-case lexeme contributes to [A-Z]{2,}
\* (0: not made of upper-case letters only; 2 stands for two or more)
UpperLetters(t) ==
    IF t \in {"A", "B", "C"} THEN 1
    ELSE IF t \in UpperWords THEN 2
    ELSE 0

\* \d+ : lexemes made of digits
IsDigits(t) == t \in {"95", "5", "2", "0"}

\* re.sub(r'\s+', ' ', s): every run of whitespace becomes one space
RECURSIVE CollapseSpace(_)
CollapseSpace(s) ==
    IF s = <<>> THEN <<>>
    ELSE IF IsSpace(Head(s)) THEN <<" ">> \o CollapseSpace(LStrip(s))
    ELSE <<Head(s)>> \o CollapseSpace(Tail(s))

\* first index >= k of s that holds no upper-case-letter lexeme
RECURSIVE SkipUpper(_, _)
SkipUpper(s, k) ==
    IF k <= Len(s) /\ UpperLetters(s[k]) > 0 THEN SkipUpper(s, k + 1) ELSE k

RECURSIVE SumUpper(_, _, _)
SumUpper(s, a, b) == IF a > b THEN 0 ELSE UpperLetters(s[a]) + SumUpper(s, a + 1, b)

\* re.sub(r'\(([A-Z]{2,})\)', '(' open \1 close ')', s)
RECURSIVE SubAbbrev(_, _, _)
SubAbbrev(s, open, close) ==
    IF s = <<>> THEN <<>>
    ELSE LET m == SkipUpper(s, 2)
         IN  IF /\ Head(s) = "("
                /\ m <= Len(s)
                /\ s[m] = ")"
                /\ SumUpper(s, 2, m - 1) >= 2
             THEN <<"(", open>> \o SubSeq(s, 2, m - 1) \o <<close, ")">>
                  \o SubAbbrev(SubSeq(s, m + 1, Len(s)), open, close)
             ELSE <<Head(s)>> \o SubAbbrev(Tail(s), open, close)

\* first index >= k of s that holds no digits lexeme
RECURSIVE SkipDigits(_, _)
SkipDigits(s, k) == IF k <= Len(s) /\ IsDigits(s[k]) THEN SkipDigits(s, k + 1) ELSE k

\* (?:\.\d+)? tried at index k: the index after it
OptFraction(s, k) ==
    IF k + 1 <= Len(s) /\ s[k] = "." /\ IsDigits(s[k + 1]) THEN SkipDigits(s, k + 1) ELSE k

\* r'\b\d+(?:\.\d+)?\s*[%+/-]\s*\d*(?:\.\d+)?' ("+/-" is the plus-minus sign) tried at index k, every quantifier
\* greedy: the index after the match, or 0 when it does not match there
PercentMatchEnd(s, k) ==
    LET d == SkipDigits(s, k)
        p == SkipSpace(s, OptFraction(s, d))
    IN  IF /\ k <= Len(s)
           /\ IsDigits(s[k])
           /\ (k = 1 \/ ~IsWordLex(s[k - 1]))
           /\ p <= Len(s)
           /\ s[p] \in {"%", "+/-"}
        THEN OptFraction(s, SkipDigits(s, SkipSpace(s, p + 1)))
        ELSE 0

\* re.sub(<the percent pattern>, open \1 close, s), scanning from index k
RECURSIVE SubPercent(_, _, _, _)
SubPercent(s, k, open, close) ==
    IF k > Len(s) THEN <<>>
    ELSE LET e == PercentMatchEnd(s, k)
         IN  IF e = 0 THEN <<s[k]>> \o SubPercent(s, k + 1, open, close)
             ELSE <<open>> \o SubSeq(s, k, e - 1) \o <<close>> \o SubPercent(s, e, open, close)

_highlight_technical_terms(s, output_format) ==
    IF output_format = "markdown"
    THEN SubPercent(SubAbbrev(s, "**", "**"), 1, "**", "**")
    ELSE IF output_format = "html"
    THEN SubPercent(SubAbbrev(s, "<strong>", "</strong>"), 1, "<strong>", "</strong>")
    ELSE s

\* TextWrapper._split: the words and the whitespace runs, alternating
RECURSIVE SplitChunks(_)
SplitChunks(s) ==
    IF s = <<>> THEN <<>>
    ELSE LET sp == IsSpace(Head(s))
             n  == CHOOSE n \in 1..Len(s) :
                       /\ \A j \in 1..n : IsSpace(s[j]) = sp
                       /\ (n = Len(s) \/ IsSpace(s[n + 1]) # sp)
         IN  <<SubSeq(s, 1, n)>> \o SplitChunks(SubSeq(s, n + 1, Len(s)))

IsBlank(chunk) == \A j \in 1..Len(chunk) : IsSpace(chunk[j])

\* the inner loop of _wrap_chunks: number of leading chunks that fit a line
RECURSIVE FitCount(_, _, _)
FitCount(chunks, cur_len, width) ==
    IF chunks # <<>> /\ cur_len + Len(Head(chunks)) <= width
    THEN 1 + FitCount(Tail(chunks), cur_len + Len(Head(chunks)), width)
    ELSE 0

\* TextWrapper._wrap_chunks with drop_whitespace and break_long_words (width > 0)
RECURSIVE WrapChunks(_, _, _)
WrapChunks(chunks, width, lines) ==
    IF chunks = <<>> THEN lines
    ELSE LET cs    == IF IsBlank(Head(chunks)) /\ lines # <<>> THEN Tail(chunks) ELSE chunks
             n     == FitCount(cs, 0, width)
             taken == SubSeq(cs, 1, n)
             rest  == SubSeq(cs, n + 1, Len(cs))
             long  == rest # <<>> /\ Len(Head(rest)) > width
             left  == width - Len(Concat(taken))
             line1 == IF long THEN Append(taken, Slice(Head(rest), 0, left)) ELSE taken
             rest1 == IF long
                      THEN <<Slice(Head(rest), left, Len(Head(rest)))>> \o Tail(rest)
                      ELSE rest
             line2 == IF line1 # <<>> /\ IsBlank(line1[Len(line1)])
                      THEN SubSeq(line1, 1, Len(line1) - 1)
                      ELSE line1
         IN  WrapChunks(rest1, width,
                        IF line2 # <<>> THEN Append(lines, Concat(line2)) ELSE lines)

\* textwrap.fill(s, width)
Fill(s, width) == Join(<<"\n">>, WrapChunks(SplitChunks(s), width, <<>>))

_format_section_content(self, content, output_format) ==
    Fill(_highlight_technical_terms(CollapseSpace(Strip(content)), output_format),
         self.line_width)

_format_section_header(section_type, output_format) ==
    LET header_text == <<Upper(section_type)>>
    IN  IF output_format = "markdown" THEN <<"###", " ">> \o header_text
        ELSE IF output_format = "html" THEN <<"<h3>">> \o header_text \o <<"</h3>">>
        ELSE <<"\n">> \o header_text \o <<"\n">> \o [k \in 1..Len(header_text) |-> "="]

\* re.split(r'(?<=[.!?])\s+', s): the pieces, cut at each whitespace run that
\* follows a sentence-terminal mark
RECURSIVE SplitAtBoundaries(_, _)
SplitAtBoundaries(s, k) ==
    IF k > Len(s) THEN <<s>>
    ELSE IF k > 1 /\ IsSpace(s[k]) /\ s[k - 1] \in {".", "!", "?"}
    THEN <<SubSeq(s, 1, k - 1)>>
         \o SplitAtBoundaries(SubSeq(s, SkipSpace(s, k), Len(s)), 1)
    ELSE SplitAtBoundaries(s, k + 1)

_split_sentences(s) ==
    LET pieces   == SplitAtBoundaries(s, 1)
        stripped == [k \in 1..Len(pieces) |-> Strip(pieces[k])]
    IN  SelectSeq(stripped, LAMBDA x : x # <<>>)

topic_starters ==
    << <<"We", " ">>, <<"Our", " ">>, <<"The", " ", "study">>, <<"This", " ", "study">>,
       <<"Results">>, <<"In", " ", "conclusion">> >>

is_topic_starter(sentence) ==
    \E n \in 1..Len(topic_starters) : StartsWithI(sentence, topic_starters[n])

\* the loop of _group_sentences_by_topic breaking at a topic starter even when the
\* open group is empty
RECURSIVE TopicLoopNoGuard(_, _, _, _)
TopicLoopNoGuard(sentences, k, groups, current_group) ==
    IF k > Len(sentences)
    THEN IF current_group # <<>> THEN Append(groups, current_group) ELSE groups
    ELSE IF is_topic_starter(sentences[k])
    THEN TopicLoopNoGuard(sentences, k + 1, Append(groups, current_group), <<sentences[k]>>)
    ELSE TopicLoopNoGuard(sentences, k + 1, groups, Append(current_group, sentences[k]))

\* the loop of _group_sentences_by_topic over sentences[k..], with its two locals
RECURSIVE TopicLoop(_, _, _, _)
TopicLoop(sentences, k, groups, current_group) ==
    IF k > Len(sentences)
    THEN IF current_group # <<>> THEN Append(groups, current_group) ELSE groups
    ELSE IF is_topic_starter(sentences[k]) /\ current_group # <<>>
    THEN TopicLoop(sentences, k + 1, Append(groups, current_group), <<sentences[k]>>)
    ELSE TopicLoop(sentences, k + 1, groups, Append(current_group, sentences[k]))

\* _group_sentences_by_topic with the short-input threshold at 2 sentences
GroupByTopicThresholdTwo(sentences) ==
    IF Len(sentences) <= 2 THEN <<sentences>>
    ELSE TopicLoop(sentences, 1, <<>>, <<>>)

_group_sentences_by_topic(sentences) ==
    IF Len(sentences) <= 3 THEN <<sentences>>
    ELSE TopicLoop(sentences, 1, <<>>, <<>>)

\* '\n\n'.join(blocks)
JoinBlocks(blocks) == Join(<<"\n", "\n">>, blocks)

_format_unstructured_abstract(self, s, output_format) ==
    LET grouped_sentences == _group_sentences_by_topic(_split_sentences(s))
    IN  JoinBlocks([g \in 1..Len(grouped_sentences) |->
            _format_section_content(self, Join(<<" ">>, grouped_sentences[g]),
                                    output_format)])

\* _format_structured_abstract without the "text before first section" step
FormatStructuredNoIntro(self, s, analysis, output_format) ==
    JoinBlocks(Concat([n \in 1..Len(analysis.sections) |->
        << _format_section_header(analysis.sections[n].section_type, output_format),
           _format_section_content(self, analysis.sections[n].content, output_format) >>]))

\* _format_structured_abstract that leaves out the header of a section without content
FormatStructuredSkipEmpty(self, s, analysis, output_format) ==
    LET first_section_start ==
            IF analysis.sections # <<>> THEN analysis.sections[1].start_pos ELSE Len(s)
        intro_text == Strip(Slice(s, 0, first_section_start))
        intro == IF first_section_start > 0 /\ intro_text # <<>>
                 THEN <<_format_section_content(self, intro_text, output_format)>>
                 ELSE <<>>
        block(section) ==
            IF section.content = <<>> THEN <<>>
            ELSE << _format_section_header(section.section_type, output_format),
                    _format_section_content(self, section.content, output_format) >>
    IN  JoinBlocks(intro \o Concat([n \in 1..Len(analysis.sections) |->
                                        block(analysis.sections[n])]))

AbstractFormatter_format_structured(self, s, analysis, output_format) ==
    LET first_section_start ==
            IF analysis.sections # <<>> THEN analysis.sections[1].start_pos ELSE Len(s)
        intro_text == Strip(Slice(s, 0, first_section_start))
        intro == IF first_section_start > 0 /\ intro_text # <<>>
                 THEN <<_format_section_content(self, intro_text, output_format)>>
                 ELSE <<>>
        body == [n \in 1..(2 * Len(analysis.sections)) |->
                    LET section == analysis.sections[(n + 1) \div 2]
                    IN  IF n % 2 = 1
                        THEN _format_section_header(section.section_type, output_format)
                        ELSE _format_section_content(self, section.content, output_format)]
    IN  JoinBlocks(intro \o body)

AbstractFormatter_format_abstract(self, s, output_format) ==
    LET analysis == analyze_structure(s)
    IN  IF analysis.has_structured_sections
        THEN AbstractFormatter_format_structured(self, s, analysis, output_format)
        ELSE _format_unstructured_abstract(self, s, output_format)

(***************************************************************************)
(* formatters.py: SpacyAbstractFormatter                                   *)
(*                                                                         *)
(* A sentence of doc.sents is [text, ents]; an entity is [text, label].    *)
(***************************************************************************)
discourse_markers ==
    [contrast   |-> << <<"however">>, <<"nevertheless">>, <<"nonetheless">>,
                       <<"conversely">>, <<"in", " ", "contrast">>,
                       <<"on", " ", "the", " ", "other", " ", "hand">> >>,
     addition   |-> << <<"additionally">>, <<"furthermore">>, <<"moreover">>, <<"also">>,
                       <<"in", " ", "addition">>, <<"besides">> >>,
     result     |-> << <<"consequently">>, <<"therefore">>, <<"thus">>,
                       <<"as", " ", "a", " ", "result">>, <<"hence">>, <<"accordingly">> >>,
     sequence   |-> << <<"first">>, <<"second">>, <<"third">>, <<"next">>, <<"then">>,
                       <<"finally">>, <<"subsequently">> >>,
     emphasis   |-> << <<"importantly">>, <<"notably">>, <<"significantly">>,
                       <<"remarkably">> >>,
     conclusion |-> << <<"in", " ", "conclusion">>, <<"in", " ", "summary">>,
                       <<"to", " ", "conclude">>, <<"overall">>, <<"in", " ", "brief">> >>]

all_markers ==
    discourse_markers.contrast \o discourse_markers.addition \o discourse_markers.result
    \o discourse_markers.sequence \o discourse_markers.emphasis
    \o discourse_markers.conclusion

_starts_with_discourse_marker(sentence) ==
    \E n \in 1..Len(all_markers) :
        LET marker == all_markers[n]
        IN  /\ StartsWithI(sentence, marker)
            /\ Len(marker) < Len(sentence)
            /\ sentence[Len(marker) + 1] \in {",", " ", ".", ";"}

\* \b word \b at index k, the word (case ignored) one of ws
WordAt(s, k, ws) ==
    /\ Lower(s[k]) \in ws
    /\ (k = 1 \/ ~IsWordLex(s[k - 1]))
    /\ (k = Len(s) \/ ~IsWordLex(s[k + 1]))

\* r'^(The \w+ (was|were|showed|demonstrated|indicated))'
TheNounVerb(s) ==
    LET m == CHOOSE m \in 3..(Len(s) + 1) :
                 /\ \A j \in 3..(m - 1) : IsWordLex(s[j])
                 /\ (m = Len(s) + 1 \/ ~IsWordLex(s[m]))
    IN  /\ StartsWithI(s, <<"The", " ">>)
        /\ m > 3
        /\ m + 1 <= Len(s)
        /\ s[m] = " "
        /\ Lower(s[m + 1]) \in {"was", "were", "showed", "demonstrated", "indicated"}

_is_topic_transition(sentence) ==
    \/ \E p \in { <<"We">>, <<"Our">>, <<"The", " ", "study">>, <<"This", " ", "study">>,
                  <<"The", " ", "present", " ", "study">> } : StartsWithI(sentence, p)
    \/ TheNounVerb(sentence)
    \/ \E p \in { <<"To", " ">>, <<"In", " ", "order", " ", "to">> } :
           StartsWithI(sentence, p)
    \/ \E n \in {"Analysis", "Investigation", "Evaluation"} :
       \E v \in {"showed", "revealed", "demonstrated"} :
           StartsWithI(sentence, <<n, " ", v>>)

EntityLabels == {"ORG", "PRODUCT", "GPE", "PERSON"}

_has_significant_entity_shift(prev_sent, curr_sent) ==
    LET prev_entities == {Lower(e.text) : e \in {x \in prev_sent.ents : x.label \in EntityLabels}}
        curr_entities == {Lower(e.text) : e \in {x \in curr_sent.ents : x.label \in EntityLabels}}
        overlap       == Cardinality(prev_entities \cap curr_entities)
        total_unique  == Cardinality(prev_entities \cup curr_entities)
    IN  IF prev_entities = {} \/ curr_entities = {} THEN FALSE
        ELSE IF total_unique > 0 THEN 10 * overlap < 3 * total_unique
        ELSE FALSE

\* r'\b(\d+(?:\.\d+)?%|\d+±\d+|\d+ out of \d+)\b' matching from index k
NumberResultAt(s, k) ==
    LET d  == SkipDigits(s, k)
        f  == OptFraction(s, d)
        d2 == SkipDigits(s, d + 1)
        d3 == SkipDigits(s, d + 6)
    IN  /\ IsDigits(s[k])
        /\ (k = 1 \/ ~IsWordLex(s[k - 1]))
        /\ \/ f + 1 <= Len(s) /\ s[f] = "%" /\ IsWordLex(s[f + 1])
           \/ /\ d + 1 <= Len(s) /\ s[d] = "+/-" /\ IsDigits(s[d + 1])
              /\ (d2 > Len(s) \/ ~IsWordLex(s[d2]))
           \/ /\ d + 6 <= Len(s)
              /\ SubSeq(LowerSeq(s), d, d + 5) = <<" ", "out", " ", "of", " ">>
              /\ IsDigits(s[d + 6])
              /\ (d3 > Len(s) \/ ~IsWordLex(s[d3]))

\* r'\bp\s*[<>=]\b' matching from index k
PCompareAt(s, k) ==
    LET c == SkipSpace(s, k + 1)
    IN  /\ Lower(s[k]) = "p"
        /\ (k = 1 \/ ~IsWordLex(s[k - 1]))
        /\ c + 1 <= Len(s)
        /\ s[c] \in {"<", ">", "="}
        /\ IsWordLex(s[c + 1])

\* r'\bbetween.*and\b' matching from index k
BetweenAndAt(s, k) ==
    /\ Lower(s[k]) = "between"
    /\ (k = 1 \/ ~IsWordLex(s[k - 1]))
    /\ \E m \in (k + 1)..Len(s) :
          /\ Lower(s[m]) = "and"
          /\ (m = Len(s) \/ ~IsWordLex(s[m + 1]))
          /\ \A j \in k..m : s[j] # "\n"

_is_results_indicator(s) ==
    \E k \in 1..Len(s) :
        \/ WordAt(s, k, {"showed", "demonstrated", "revealed", "found", "indicated",
                         "observed"})
        \/ NumberResultAt(s, k)
        \/ WordAt(s, k, {"significant", "significantly", "correlation"})
        \/ PCompareAt(s, k)
        \/ WordAt(s, k, {"average", "mean", "median", "range"})
        \/ BetweenAndAt(s, k)

\* [s.text for s in group]
Texts(group) == [k \in 1..Len(group) |-> group[k].text]

\* [sent.text.strip() for sent in group]
StrippedTexts(group) == [k \in 1..Len(group) |-> Strip(group[k].text)]

\* the decision with a topic transition breaking after a single sentence too
ShouldBreakTopicAtOne(i, sent, current_group) ==
    LET sent_text == Strip(sent.text)
        has_entity_shift ==
            IF i > 0 /\ current_group # <<>>
            THEN _has_significant_entity_shift(current_group[Len(current_group)], sent)
            ELSE FALSE
    IN  \/ _starts_with_discourse_marker(sent_text) /\ current_group # <<>>
        \/ _is_topic_transition(sent_text) /\ current_group # <<>>
        \/ has_entity_shift /\ Len(current_group) >= 3
        \/ /\ _is_results_indicator(sent_text)
           /\ current_group # <<>>
           /\ ~_is_results_indicator(Join(<<" ">>, Texts(current_group)))
        \/ Len(current_group) >= 4

\* the decision of _smart_sentence_grouping for sentence i (0-based) of the scan
should_break(i, sent, current_group) ==
    LET sent_text            == Strip(sent.text)
        has_discourse_marker == _starts_with_discourse_marker(sent_text)
        is_topic_transition  == _is_topic_transition(sent_text)
        has_entity_shift     ==
            IF i > 0 /\ current_group # <<>>
            THEN _has_significant_entity_shift(current_group[Len(current_group)], sent)
            ELSE FALSE
        is_results_section   == _is_results_indicator(sent_text)
        group_too_long       == Len(current_group) >= 4
    IN  \/ has_discourse_marker /\ current_group # <<>>
        \/ is_topic_transition /\ current_group # <<>> /\ Len(current_group) >= 2
        \/ has_entity_shift /\ Len(current_group) >= 3
        \/ /\ is_results_section
           /\ current_group # <<>>
           /\ ~_is_results_indicator(Join(<<" ">>, Texts(current_group)))
        \/ group_too_long

\* the loop of _smart_sentence_grouping over sentences[k..] (k is 1-based)
RECURSIVE SmartLoop(_, _, _, _)
SmartLoop(sentences, k, groups, current_group) ==
    IF k > Len(sentences)
    THEN IF current_group # <<>> THEN Append(groups, current_group) ELSE groups
    ELSE IF should_break(k - 1, sentences[k], current_group)
    THEN SmartLoop(sentences, k + 1, Append(groups, current_group), <<sentences[k]>>)
    ELSE SmartLoop(sentences, k + 1, groups, Append(current_group, sentences[k]))

\* the while loop of _merge_short_groups joining a one-sentence group to the group
\* before it instead of absorbing the group after it
RECURSIVE MergeLoopAbsorbLeft(_, _, _)
MergeLoopAbsorbLeft(groups, i, merged) ==
    IF i > Len(groups) THEN merged
    ELSE IF Len(groups[i]) = 1 /\ merged # <<>>
    THEN MergeLoopAbsorbLeft(groups, i + 1,
             Append(SubSeq(merged, 1, Len(merged) - 1), merged[Len(merged)] \o groups[i]))
    ELSE MergeLoopAbsorbLeft(groups, i + 1, Append(merged, groups[i]))

\* the while loop of _merge_short_groups with i += 1 after a merge: the absorbed
\* group is visited again
RECURSIVE MergeLoopNoSkip(_, _, _)
MergeLoopNoSkip(groups, i, merged) ==
    IF i > Len(groups) THEN merged
    ELSE IF Len(groups[i]) = 1 /\ i < Len(groups)
    THEN MergeLoopNoSkip(groups, i + 1, Append(merged, groups[i] \o groups[i + 1]))
    ELSE MergeLoopNoSkip(groups, i + 1, Append(merged, groups[i]))

\* the while loop of _merge_short_groups from index i (1-based)
RECURSIVE MergeLoop(_, _, _)
MergeLoop(groups, i, merged) ==
    IF i > Len(groups) THEN merged
    ELSE IF Len(groups[i]) = 1 /\ i < Len(groups)
    THEN MergeLoop(groups, i + 2, Append(merged, groups[i] \o groups[i + 1]))
    ELSE MergeLoop(groups, i + 1, Append(merged, groups[i]))

\* _merge_short_groups that merges nothing
MergeNothing(groups) == groups

_merge_short_groups(groups) ==
    IF Len(groups) <= 1 THEN groups ELSE MergeLoop(groups, 1, <<>>)

\* _smart_sentence_grouping with an early "if not sentences: return []"
SmartGroupingEmptyAware(sentences) ==
    IF sentences = <<>> THEN <<>>
    ELSE IF Len(sentences) <= 4 THEN <<sentences>>
    ELSE _merge_short_groups(SmartLoop(sentences, 1, <<>>, <<>>))

_smart_sentence_grouping(sentences) ==
    IF Len(sentences) <= 4 THEN <<sentences>>
    ELSE _merge_short_groups(SmartLoop(sentences, 1, <<>>, <<>>))

\* the keywords of _has_section_headers and of the header pattern of
\* SpacyAbstractFormatter._format_structured_abstract
SpacyHeaderWords == <<"BACKGROUND", "PURPOSE", "METHODS", "RESULTS", "CONCLUSION", "OBJECTIVE">>

\* r'\bKEYWORD\s*:' found somewhere in s, re.IGNORECASE
_has_section_headers(s) ==
    \E n \in 1..Len(SpacyHeaderWords) : \E k \in 1..Len(s) :
        LET p == SkipSpace(s, k + 1)
        IN  /\ Lower(s[k]) = Lower(SpacyHeaderWords[n])
            /\ (k = 1 \/ ~IsWordLex(s[k - 1]))
            /\ p <= Len(s)
            /\ s[p] = ":"

\* r'^(BACKGROUND|...|OBJECTIVE)\s*:\s*(.*)' matched against a sentence:
\* [matched, header: group(1).upper(), remaining_text: group(2).strip()]
SpacyHeaderMatch(sentence) ==
    LET p    == SkipSpace(sentence, 2)
        q    == SkipSpace(sentence, p + 1)
        eol  == CHOOSE e \in q..(Len(sentence) + 1) :
                    /\ \A j \in q..(e - 1) : sentence[j] # "\n"
                    /\ (e = Len(sentence) + 1 \/ sentence[e] = "\n")
        hit  == /\ sentence # <<>>
                /\ \E n \in 1..Len(SpacyHeaderWords) :
                       Lower(sentence[1]) = Lower(SpacyHeaderWords[n])
                /\ p <= Len(sentence)
                /\ sentence[p] = ":"
    IN  IF hit
        THEN [matched |-> TRUE,
              header |-> CHOOSE w \in {SpacyHeaderWords[n] : n \in 1..Len(SpacyHeaderWords)} :
                             Lower(w) = Lower(sentence[1]),
              remaining_text |-> Strip(SubSeq(sentence, q, eol - 1))]
        ELSE [matched |-> FALSE, header |-> "", remaining_text |-> <<>>]

\* r'\b\d+(?:\.\d+)?(?:\s*[%+/-]\s*\d*(?:\.\d+)?|\s*-\s*\d+(?:\.\d+)?|x)' tried at index
\* k ("+/-" is the plus-minus sign, "(x)" the multiplication sign): the index after
\* the match, or 0
MeasureMatchEnd(s, k) ==
    LET f == OptFraction(s, SkipDigits(s, k))
        p == SkipSpace(s, f)
        r == SkipSpace(s, p + 1)
    IN  IF ~(k <= Len(s) /\ IsDigits(s[k]) /\ (k = 1 \/ ~IsWordLex(s[k - 1]))) THEN 0
        ELSE IF p <= Len(s) /\ s[p] \in {"%", "+/-"}
        THEN OptFraction(s, SkipDigits(s, SkipSpace(s, p + 1)))
        ELSE IF p <= Len(s) /\ s[p] = "-" /\ r <= Len(s) /\ IsDigits(s[r])
        THEN OptFraction(s, SkipDigits(s, r))
        ELSE IF f <= Len(s) /\ s[f] = "(x)" THEN f + 1
        ELSE 0

\* r'[<>=]?\s*p\s*[<>=]\s*0\.\d+' tried at index k: the index after the match, or 0
PValueMatchEnd(s, k) ==
    LET a == IF k <= Len(s) /\ s[k] \in {"<", ">", "="} THEN k + 1 ELSE k
        b == SkipSpace(s, a)
        c == SkipSpace(s, b + 1)
        d == SkipSpace(s, c + 1)
    IN  IF /\ d + 2 <= Len(s)
           /\ s[b] = "p"
           /\ s[c] \in {"<", ">", "="}
           /\ s[d] = "0"
           /\ s[d + 1] = "."
           /\ IsDigits(s[d + 2])
        THEN SkipDigits(s, d + 2)
        ELSE 0

\* re.sub(<measure pattern>, open \1 close, s), scanning from index k
RECURSIVE SubMeasure(_, _, _, _)
SubMeasure(s, k, open, close) ==
    IF k > Len(s) THEN <<>>
    ELSE LET e == MeasureMatchEnd(s, k)
         IN  IF e = 0 THEN <<s[k]>> \o SubMeasure(s, k + 1, open, close)
             ELSE <<open>> \o SubSeq(s, k, e - 1) \o <<close>> \o SubMeasure(s, e, open, close)

\* re.sub(<p-value pattern>, open \1 close, s), scanning from index k
RECURSIVE SubPValue(_, _, _, _)
SubPValue(s, k, open, close) ==
    IF k > Len(s) THEN <<>>
    ELSE LET e == PValueMatchEnd(s, k)
         IN  IF e = 0 THEN <<s[k]>> \o SubPValue(s, k + 1, open, close)
             ELSE <<open>> \o SubSeq(s, k, e - 1) \o <<close>> \o SubPValue(s, e, open, close)

_highlight_technical_terms_spacy(s, output_format) ==
    LET open  == IF output_format = "markdown" THEN "**" ELSE "<strong>"
        close == IF output_format = "markdown" THEN "**" ELSE "</strong>"
    IN  IF output_format \in {"markdown", "html"}
        THEN SubPValue(SubMeasure(SubAbbrev(s, open, close), 1, open, close), 1, open, close)
        ELSE s

_format_content(self, s, output_format) ==
    LET t == CollapseSpace(Strip(s))
    IN  Fill(IF output_format \in {"markdown", "html"}
             THEN _highlight_technical_terms_spacy(t, output_format)
             ELSE t,
             self.line_width)

\* the loop of SpacyAbstractFormatter._format_structured_abstract over
\* sentences[k..]; current_header is "" for None
RECURSIVE SectionLoop(_, _, _, _, _)
SectionLoop(sentences, k, sections, current_header, current_section) ==
    IF k > Len(sentences)
    THEN IF current_section # <<>> /\ current_header # ""
         THEN Append(sections, [header |-> current_header, content |-> current_section])
         ELSE sections
    ELSE LET header_match == SpacyHeaderMatch(sentences[k])
         IN  IF header_match.matched
             THEN SectionLoop(sentences, k + 1,
                      IF current_section # <<>> /\ current_header # ""
                      THEN Append(sections, [header |-> current_header,
                                             content |-> current_section])
                      ELSE sections,
                      header_match.header,
                      IF header_match.remaining_text # <<>>
                      THEN <<header_match.remaining_text>> ELSE <<>>)
             ELSE SectionLoop(sentences, k + 1, sections, current_header,
                              Append(current_section, sentences[k]))

\* doc is self.nlp(text): the sentences of the text as the NLP capability cuts them
SpacyAbstractFormatter_format_structured(self, doc, output_format) ==
    LET sections == SectionLoop(StrippedTexts(doc), 1, <<>>, "", <<>>)
        blocks(n) ==
            LET content == _format_content(self, Join(<<" ">>, sections[n].content),
                                           output_format)
            IN  IF output_format = "markdown"
                THEN << <<"###", " ", sections[n].header>>, content >>
                ELSE << content >>
    IN  JoinBlocks(Concat([n \in 1..Len(sections) |-> blocks(n)]))

_format_unstructured_abstract_spacy(self, doc, output_format) ==
    IF Len(doc) <= 3
    THEN _format_content(self, Join(<<" ">>, StrippedTexts(doc)), output_format)
    ELSE LET groups == _smart_sentence_grouping(doc)
         IN  JoinBlocks([g \in 1..Len(groups) |->
                 _format_content(self, Join(<<" ">>, StrippedTexts(groups[g])),
                                 output_format)])

\* AbstractFormatter.__init__ defaults
DefaultLineWidth == 80

DefaultIndentSize == 2

AbstractFormatter(width, indent) == [line_width |-> width, indent_size |-> indent]

\* the fallback built as AbstractFormatter(), with the default line width
SpacyFallbackDefaultWidth(self, s, output_format) ==
    AbstractFormatter_format_abstract(
        AbstractFormatter(DefaultLineWidth, DefaultIndentSize), s, output_format)

\* self.nlp is None: the basic formatter stands in, built with self.line_width
SpacyFallback(self, s, output_format) ==
    AbstractFormatter_format_abstract(
        AbstractFormatter(self.line_width, DefaultIndentSize), s, output_format)

SpacyAbstractFormatter_format_abstract(self, s, doc, output_format) ==
    IF ~self.nlp
    THEN SpacyFallback(self, s, output_format)
    ELSE IF _has_section_headers(s)
    THEN SpacyAbstractFormatter_format_structured(self, doc, output_format)
    ELSE _format_unstructured_abstract_spacy(self, doc, output_format)

(***************************************************************************)
(* Inputs                                                                  *)
(***************************************************************************)
SeqsUpTo(S, n) == UNION {[1..k -> S] : k \in 0..n}

Formats == {"markdown", "html", "plain"}

Widths == {NarrowWidth, DefaultLineWidth}

AnalyzeLexemes == {"BACKGROUND", "RESULTS", "MAIN", " ", ":", "."}

\* spec.md section 8: "BACKGROUND: A. METHODS: B. RESULTS: C."
ExampleSections ==
    <<"BACKGROUND", ":", " ", "A", ".", " ", "METHODS", ":", " ", "B", ".", " ",
      "RESULTS", ":", " ", "C", ".">>

\* a multi-word header behind an introduction: "x. MATERIALS AND METHODS : y."
ExampleMaterials ==
    <<"x", ".", " ", "MATERIALS", " ", "AND", " ", "METHODS", " ", ":", " ", "y", ".">>

\* the sequence of the members of the set S, in some order
RECURSIVE SeqOf(_)
SeqOf(S) == IF S = {} THEN <<>> ELSE LET x == CHOOSE x \in S : TRUE IN <<x>> \o SeqOf(S \ {x})

\* 'LABEL:' for one SectionType value, alone, glued to a preceding word, and after a word
LabelTexts ==
    {pre \o <<Upper(l), ":">> : pre \in {<<>>, <<"x">>, <<"x", " ">>}, l \in SectionType}

\* one text with 'LABEL: x.' for every SectionType value
AllLabelsText ==
    Join(<<" ">>, [n \in 1..Cardinality(SectionType) |->
                      <<Upper(SeqOf(SectionType)[n]), ":", " ", "x", ".">>])

AnalyzeTexts ==
    SeqsUpTo(AnalyzeLexemes, MaxLen) \cup {ExampleSections, ExampleMaterials, AllLabelsText}
        \cup LabelTexts

Sent(t, e) == [text |-> t, ents |-> e]

Org(name) == [text |-> name, label |-> "ORG"]

PlainSent == Sent(<<"x", ".">>, {})

AcmeSent == Sent(<<"Acme", " ", "x", ".">>, {Org("Acme")})

BoltSent == Sent(<<"Bolt", " ", "x", ".">>, {Org("Bolt")})

MarkerSent == Sent(<<"However", ",", " ", "x", ".">>, {})

TopicSent == Sent(<<"We", " ", "x", ".">>, {})

ResultsSent == Sent(<<"Results", " ", "showed", " ", "x", ".">>, {})

HeaderSent == Sent(<<"RESULTS", ":", " ", "x", ".">>, {})

SentencePool == {PlainSent, AcmeSent, BoltSent, MarkerSent, TopicSent, ResultsSent}

\* sentences with several entities, and with an entity of a label that is not kept
AcmeBoltCoreSent ==
    Sent(<<"Acme", " ", "Bolt", " ", "Core", " ", "x", ".">>,
         {Org("Acme"), Org("Bolt"), Org("Core")})

AcmeBoltCoreDyneSent ==
    Sent(<<"Acme", " ", "Bolt", " ", "Core", " ", "Dyne", " ", "x", ".">>,
         {Org("Acme"), Org("Bolt"), Org("Core"), Org("Dyne")})

BoltDateSent == Sent(<<"Bolt", " ", "x", ".">>, {[text |-> "Bolt", label |-> "DATE"]})

\* entity overlap 1/3 (no shift), 1/4 (shift), and no kept entity (no shift), each
\* met with an open group of three sentences
EntityLists ==
    { <<PlainSent, PlainSent, AcmeSent, AcmeBoltCoreSent, PlainSent>>,
      <<PlainSent, PlainSent, AcmeSent, AcmeBoltCoreDyneSent, PlainSent>>,
      <<PlainSent, PlainSent, AcmeSent, BoltDateSent, PlainSent>> }

\* second sentences for the heuristic grouper: one per topic-starter pattern not in
\* the pool, and two near misses ("Wex." and "The x.")
StarterSents ==
    { Sent(<<"Our", " ", "x", ".">>, {}),
      Sent(<<"The", " ", "study", " ", "x", ".">>, {}),
      Sent(<<"This", " ", "study", " ", "x", ".">>, {}),
      Sent(<<"In", " ", "conclusion", " ", "x", ".">>, {}),
      Sent(<<"We", "x", ".">>, {}),
      Sent(<<"The", " ", "x", ".">>, {}) }

StarterLists == {<<PlainSent, s, PlainSent, PlainSent>> : s \in StarterSents}

SentenceLists == SeqsUpTo(SentencePool, MaxSents) \cup EntityLists \cup StarterLists

\* tests/test_formatters.py, test_discourse_marker_paragraph_breaks:
\* "We started with method A. However, this approach had limitations.
\*  Additionally, we tried method B. Consequently, we achieved better results."
TestMarkerDoc ==
    << Sent(<<"We", " ", "started", ".">>, {}),
       Sent(<<"However", ",", " ", "limitations", ".">>, {}),
       Sent(<<"Additionally", ",", " ", "tried", ".">>, {}),
       Sent(<<"Consequently", ",", " ", "achieved", ".">>, {}) >>

\* spec.md section 8: "We tested X.", "Results showed Y.", "However, Z happened.",
\* "Additionally, W.", "Consequently, V."
ExampleMarkerDoc ==
    << Sent(<<"We", " ", "tested", " ", "x", ".">>, {}),
       Sent(<<"Results", " ", "showed", " ", "y", ".">>, {}),
       Sent(<<"However", ",", " ", "z", " ", "happened", ".">>, {}),
       Sent(<<"Additionally", ",", " ", "w", ".">>, {}),
       Sent(<<"Consequently", ",", " ", "v", ".">>, {}) >>

\* five sentences, the third and the fourth opened by a discourse marker
MergedMarkerDoc == <<PlainSent, PlainSent, MarkerSent, MarkerSent, PlainSent>>

DocPool == {PlainSent, MarkerSent, TopicSent, HeaderSent}

\* "We x. p=0.5.": the second sentence is one word of six lexemes
LongWordDoc == <<TopicSent, Sent(<<"p", "=", "0", ".", "5", ".">>, {})>>

\* tests/test_formatters.py, test_technical_term_highlighting_markdown:
\* "The method used MRI (Magnetic Resonance Imaging) with 95% accuracy."
TestHighlightDoc ==
    << Sent(<<"The", " ", "method", " ", "used", " ", "MRI", " ", "(", "Magnetic", " ",
              "Resonance", " ", "Imaging", ")", " ", "with", " ", "95", "%", " ",
              "accuracy", ".">>, {}) >>

Docs ==
    SeqsUpTo(DocPool, MaxDocSents)
        \cup {TestMarkerDoc, ExampleMarkerDoc, MergedMarkerDoc, LongWordDoc, TestHighlightDoc}

\* the text whose sentences the NLP capability reports as doc
DocText(doc) == Join(<<" ">>, Texts(doc))

\* the documents handed, one after another, to the same formatter objects: a
\* structured one and an unstructured one with discourse markers
CallDocs == {<<PlainSent, HeaderSent>>, MergedMarkerDoc}

\* the formats asked for in a series of calls
CallFormats == {"markdown", "plain"}

(***************************************************************************)
(* document_processor.py.  A document is a str or a dict: text is the str, *)
(* or the value the dict holds under 'abstract' (empty without that key),  *)
(* and keys are the dict's keys.  A processor is an object of a            *)
(* DocumentProcessor subclass: cls is its class name, formatter the class   *)
(* of the formatter an AbstractProcessor holds, accepts the document types *)
(* the can_process of a custom subclass says yes to.  What process returns *)
(* is held as the call that produces it: the formatters are functions of   *)
(* their arguments, modelled above.                                        *)
(***************************************************************************)
Str(t) == [type |-> "str", text |-> t, keys |-> {}]

Dict(ks, abstract) ==
    [type |-> "dict", text |-> IF "abstract" \in ks THEN abstract ELSE <<>>, keys |-> ks]

\* the word counts of AbstractProcessor.can_process: 50 <= word_count <= 2000
AbstractMinWords == 50

AbstractMaxWords == 2000

\* the word count of FullTextProcessor.can_process: word_count > 2000
FullTextOverWords == 2000

\* AbstractProcessor(use_spacy)
AbstractProcessor(use_spacy) ==
    [cls       |-> "AbstractProcessor",
     formatter |-> IF use_spacy THEN "SpacyAbstractFormatter" ELSE "AbstractFormatter",
     accepts   |-> {}]

\* FullTextProcessor()
FullTextProcessor == [cls |-> "FullTextProcessor", formatter |-> "", accepts |-> {}]

\* an object of a DocumentProcessor subclass written by the caller
CustomProcessor(name, types) == [cls |-> name, formatter |-> "", accepts |-> types]

AbstractProcessor_can_process(doc) ==
    IF doc.type = "dict"
    THEN "abstract" \in doc.keys \/ "summary" \in doc.keys
    ELSE LET word_count == WordCount(doc.text)
         IN  AbstractMinWords <= word_count /\ word_count <= AbstractMaxWords

FullTextProcessor_can_process(doc) ==
    IF doc.type = "dict"
    THEN "sections" \in doc.keys \/ "full_text" \in doc.keys
    ELSE LET word_count == WordCount(doc.text)
         IN  word_count > FullTextOverWords

\* processor.can_process(document)
can_process(processor, doc) ==
    CASE processor.cls = "AbstractProcessor" -> AbstractProcessor_can_process(doc)
      [] processor.cls = "FullTextProcessor" -> FullTextProcessor_can_process(doc)
      [] OTHER -> doc.type \in processor.accepts

\* kwargs.get('output_format', 'markdown'); kwargs is <<>> or <<output_format>>
OutputFormat(kwargs) == IF kwargs = <<>> THEN "markdown" ELSE kwargs[1]

\* self.formatter.format_abstract(text, output_format)
AbstractProcessor_process(self, doc, kwargs) ==
    [by |-> self.cls, call |-> "format_abstract", formatter |-> self.formatter,
     text |-> doc.text, output_format |-> OutputFormat(kwargs)]

\* the placeholder message, which ends with the length of str(document)
FullTextProcessor_process(self, doc, kwargs) ==
    [by |-> self.cls, call |-> "Full-text processing not yet implemented.",
     formatter |-> "", text |-> doc.text, output_format |-> ""]

\* processor.process(document, **kwargs)
process(processor, doc, kwargs) ==
    CASE processor.cls = "AbstractProcessor" ->
             AbstractProcessor_process(processor, doc, kwargs)
      [] processor.cls = "FullTextProcessor" ->
             FullTextProcessor_process(processor, doc, kwargs)
      [] OTHER -> [by |-> processor.cls, call |-> "process", formatter |-> "",
                   text |-> doc.text, output_format |-> OutputFormat(kwargs)]

NoSuitableProcessor ==
    [by |-> "", call |-> "No suitable processor found for this document type.",
     formatter |-> "", text |-> <<>>, output_format |-> ""]

\* ScientificDocumentFormatter(use_spacy).processors
ScientificDocumentFormatter(use_spacy) == <<AbstractProcessor(use_spacy), FullTextProcessor>>

\* the loop of format_document from the i-th processor on; processed lists the
\* processors whose process was called
RECURSIVE ProcessorLoop(_, _, _, _)
ProcessorLoop(self, i, doc, kwargs) ==
    IF i > Len(self)
    THEN [result |-> NoSuitableProcessor, processed |-> <<>>]
    ELSE IF can_process(self[i], doc)
         THEN [result    |-> process(self[i], doc, kwargs),
               processed |-> <<self[i]>>]
         ELSE ProcessorLoop(self, i + 1, doc, kwargs)

\* format_document handing the document to the last processor that accepts it
FormatDocumentLastMatch(self, doc, kwargs) ==
    LET accepting == {i \in 1..Len(self) : can_process(self[i], doc)}
        last == CHOOSE i \in accepting : \A j \in accepting : j <= i
    IN  IF accepting = {}
        THEN [result |-> NoSuitableProcessor, processed |-> <<>>]
        ELSE [result    |-> process(self[last], doc, kwargs),
              processed |-> <<self[last]>>]

\* ScientificDocumentFormatter.format_document(document, **kwargs); self is self.processors
format_document(self, doc, kwargs) ==
    ProcessorLoop(self, 1, doc, kwargs)

\* add_processor putting the processor at the end of the list
AddProcessorAtEnd(self, processor) == Append(self, processor)

\* ScientificDocumentFormatter.add_processor(processor): self.processors afterwards
add_processor(self, processor) == <<processor>> \o self

\* ScientificDocumentFormatter.get_processor_info()
get_processor_info(self) ==
    [processors       |-> [i \in 1..Len(self) |-> self[i].cls],
     total_processors |-> Len(self)]

(***************************************************************************)
(* cli.py.  argv holds the parsed command line: input is "stdin" (no       *)
(* argument), "file" (an existing file) or "missing" (a path with no file  *)
(* behind it); the text is what the file or the standard input holds.  A   *)
(* run of main is [exit, stdout, stderr, file]: the exit status, what was  *)
(* printed, the message on the error stream and what was written to the    *)
(* output file.  The report of format_analysis is held up to its headers   *)
(* part, as the values its lines print.                                    *)
(***************************************************************************)
\* f"{word_count/sentence_count:.1f}" in tenths: to the nearest tenth, a tie to the
\* even one (a tie is a multiple of 1/4 here, which the division gives exactly)
AverageTenths(word_count, sentence_count) ==
    LET f == (10 * word_count) \div sentence_count
        r == (10 * word_count) % sentence_count
    IN  IF 2 * r < sentence_count \/ (2 * r = sentence_count /\ f % 2 = 0)
        THEN f
        ELSE f + 1

\* format_analysis(analysis): the report, or the exception the division raises
format_analysis(analysis) ==
    IF analysis.sentence_count = 0
    THEN [raised |-> "division by zero", report |-> <<>>]
    ELSE [raised |-> "",
          report |-> <<[length     |-> analysis.total_length,
                        words      |-> analysis.word_count,
                        sentences  |-> analysis.sentence_count,
                        average    |-> AverageTenths(analysis.word_count,
                                                     analysis.sentence_count),
                        structured |-> IF analysis.has_structured_sections
                                       THEN "Yes" ELSE "No",
                        headers    |-> [i \in 1..Len(analysis.section_headers) |->
                                           LET h == analysis.section_headers[i]
                                           IN  <<h.section_type, h.pos,
                                                 Strip(h.header_text)>>]]>>]

\* print(message, file=sys.stderr); sys.exit(1)
ExitError(message) == [exit |-> 1, stdout |-> <<>>, stderr |-> message, file |-> <<>>]

\* the "Write output" part of main, and the normal return after it
WriteOutput(argv, output) ==
    IF argv.output
    THEN [exit |-> 0, stdout |-> <<>>, stderr |-> "Formatted abstract saved to",
          file |-> <<output>>]
    ELSE [exit |-> 0, stdout |-> <<output>>, stderr |-> "", file |-> <<>>]

\* main() run with the parsed arguments argv on the input text s
main(argv, s) ==
    IF argv.input = "missing" THEN ExitError("Error: File not found")
    ELSE IF Strip(s) = <<>> THEN ExitError("Error: No input text provided")
    ELSE IF argv.analyze
         THEN LET output == format_analysis(analyze_structure(s))
              IN  IF output.raised # ""
                  THEN ExitError("Error: division by zero")
                  ELSE WriteOutput(argv, output.report[1])
    ELSE IF argv.no_spacy
         THEN WriteOutput(argv, AbstractFormatter_format_abstract(
                  AbstractFormatter(argv.line_width, DefaultIndentSize), s, argv.format))
    ELSE WriteOutput(argv, format_document(ScientificDocumentFormatter(TRUE), Str(s),
                                           <<argv.format>>).result)

(***************************************************************************)
(* Inputs of the dispatcher and of the command line                        *)
(***************************************************************************)
\* a text of n words
WordsText(n) == [i \in 1..(2 * n - 1) |-> IF i % 2 = 1 THEN "x" ELSE " "]

\* the word counts around the limits of the two can_process methods
WordCounts ==
    {0, 1, AbstractMinWords - 1, AbstractMinWords, AbstractMaxWords, FullTextOverWords + 1}

StrDocuments ==
    {Str(WordsText(n)) : n \in WordCounts}
        \cup {Str(<<" ">>), Str(DocText(<<PlainSent, HeaderSent>>))}

DictKeySets ==
    {{}, {"title"}, {"abstract"}, {"summary"}, {"sections"}, {"full_text"},
     {"abstract", "sections"}, {"summary", "full_text"}}

DictDocuments == {Dict(ks, PlainSent.text) : ks \in DictKeySets}

Documents == StrDocuments \cup DictDocuments

\* the caller's processors: one that accepts every document, one that accepts
\* strings, one that accepts nothing
CustomProcessors ==
    {CustomProcessor("AnyProcessor", {"str", "dict"}),
     CustomProcessor("StrProcessor", {"str"}),
     CustomProcessor("NoProcessor", {})}

\* the keyword arguments of format_document: none, or output_format
KwargsPool == {<<>>} \cup {<<f>> : f \in Formats}

\* the command line without arguments
DefaultArgs ==
    [input |-> "stdin", output |-> FALSE, format |-> "markdown", no_spacy |-> FALSE,
     line_width |-> DefaultLineWidth, analyze |-> FALSE]

ArgsPool ==
    [input : {"stdin", "file", "missing"}, output : BOOLEAN, format : Formats,
     no_spacy : BOOLEAN, line_width : Widths, analyze : BOOLEAN]

\* the texts piped into the command line: empty, blank, without and with sentence
\* punctuation, with a section header
CliTexts ==
    {<<>>, <<" ">>, <<"x">>, <<"x", " ", "y">>, PlainSent.text, TopicSent.text,
     <<"x", "?", "!", " ", "y">>, DocText(<<PlainSent, HeaderSent>>),
     DocText(<<TopicSent, MarkerSent, PlainSent>>)}

(***************************************************************************)
(* State: one input (text, its sentences, format) and the two formatter    *)
(* objects' configuration; ret[op] is <<>> until op has been called on the *)
(* input and <<value>> afterwards (scan_groups: the groups of the scan of   *)
(* _smart_sentence_grouping before its merge pass).  seen is the log of the calls made on   *)
(* the formatter objects, each with the configuration found before and     *)
(* left after the call.                                                    *)
(***************************************************************************)
\* what a formatter object holds besides its read-only tables
Config == [line_width |-> line_width, nlp |-> nlp]

\* the log entry of the call op that returned result
Logged(op, result) ==
    [n |-> Cardinality(seen) + 1, op |-> op, text |-> text, fmt |-> fmt,
     before |-> Config, after |-> Config', result |-> result]

NoRet ==
    [analyze |-> <<>>, basic_format |-> <<>>, spacy_format |-> <<>>,
     group_topic |-> <<>>, group_smart |-> <<>>, scan_groups |-> <<>>,
     format_document |-> <<>>, processor_info |-> <<>>, main |-> <<>>]

\* no dispatcher in use and no command line run: a ScientificDocumentFormatter as
\* constructed, an empty document, the command line's defaults
NoDocument ==
    /\ processors = ScientificDocumentFormatter(TRUE)
    /\ added = <<>>
    /\ document = Str(<<>>)
    /\ args = DefaultArgs

InitAnalyze ==
    /\ text \in AnalyzeTexts
    /\ sents = <<>>
    /\ fmt \in Formats
    /\ line_width = DefaultLineWidth
    /\ nlp = FALSE
    /\ ret = NoRet
    /\ seen = {}
    /\ NoDocument

InitGroup ==
    /\ sents \in SentenceLists
    /\ text = DocText(sents)
    /\ fmt = "markdown"
    /\ line_width = DefaultLineWidth
    /\ nlp = TRUE
    /\ ret = NoRet
    /\ seen = {}
    /\ NoDocument

InitFormat ==
    /\ sents \in Docs
    /\ text = DocText(sents)
    /\ fmt \in Formats
    /\ line_width \in Widths
    /\ nlp \in BOOLEAN
    /\ ret = NoRet
    /\ seen = {}
    /\ NoDocument

\* AbstractAnalyzer().analyze_structure(text)
CallAnalyze ==
    /\ ret.analyze = <<>>
    /\ ret' = [ret EXCEPT !.analyze = <<analyze_structure(text)>>]
    /\ UNCHANGED <<text, sents, fmt, line_width, nlp, processors, added, document, args>>
    /\ seen' = seen \cup {Logged("analyze_structure", ret'.analyze[1])}

\* format_abstract that keeps the narrow width on the object once it has been called
CallBasicFormatKeepsNarrow ==
    /\ ret.basic_format = <<>>
    /\ ret' = [ret EXCEPT !.basic_format =
                  <<AbstractFormatter_format_abstract(
                        AbstractFormatter(line_width, DefaultIndentSize), text, fmt)>>]
    /\ line_width' = NarrowWidth
    /\ UNCHANGED <<text, sents, fmt, nlp, processors, added, document, args>>
    /\ seen' = seen \cup {Logged("AbstractFormatter.format_abstract", ret'.basic_format[1])}

\* AbstractFormatter(line_width).format_abstract(text, fmt)
CallBasicFormat ==
    /\ ret.basic_format = <<>>
    /\ ret' = [ret EXCEPT !.basic_format =
                  <<AbstractFormatter_format_abstract(
                        AbstractFormatter(line_width, DefaultIndentSize), text, fmt)>>]
    /\ UNCHANGED <<text, sents, fmt, line_width, nlp, processors, added, document, args>>
    /\ seen' = seen \cup {Logged("AbstractFormatter.format_abstract", ret'.basic_format[1])}

\* SpacyAbstractFormatter(line_width).format_abstract(text, fmt)
CallSpacyFormat ==
    /\ ret.spacy_format = <<>>
    /\ ret' = [ret EXCEPT !.spacy_format =
                  <<SpacyAbstractFormatter_format_abstract(
                        [line_width |-> line_width, nlp |-> nlp], text, sents, fmt)>>]
    /\ UNCHANGED <<text, sents, fmt, line_width, nlp, processors, added, document, args>>
    /\ seen' = seen \cup {Logged("SpacyAbstractFormatter.format_abstract",
                                 ret'.spacy_format[1])}

\* AbstractFormatter()._group_sentences_by_topic(sentences)
CallGroupByTopic ==
    /\ ret.group_topic = <<>>
    /\ ret' = [ret EXCEPT !.group_topic = <<_group_sentences_by_topic(Texts(sents))>>]
    /\ UNCHANGED <<text, sents, fmt, line_width, nlp, seen, processors, added, document, args>>

\* SpacyAbstractFormatter()._smart_sentence_grouping(sentences); scan_groups is the
\* local list groups as handed to _merge_short_groups (no scan for 4 sentences or fewer)
CallSmartGrouping ==
    /\ ret.group_smart = <<>>
    /\ ret' = [ret EXCEPT !.group_smart = <<_smart_sentence_grouping(sents)>>,
                          !.scan_groups = IF Len(sents) <= 4 THEN <<>>
                                          ELSE <<SmartLoop(sents, 1, <<>>, <<>>)>>]
    /\ UNCHANGED <<text, sents, fmt, line_width, nlp, seen, processors, added, document, args>>

\* the next text and format are handed to the same formatter objects
NextInput ==
    /\ Cardinality(seen) < MaxCalls
    /\ sents' \in CallDocs
    /\ text' = DocText(sents')
    /\ fmt' \in CallFormats
    /\ ret' = NoRet
    /\ UNCHANGED <<line_width, nlp, seen, processors, added, document, args>>

InitCalls ==
    /\ sents \in CallDocs
    /\ text = DocText(sents)
    /\ fmt \in CallFormats
    /\ line_width \in Widths
    /\ nlp \in BOOLEAN
    /\ ret = NoRet
    /\ seen = {}
    /\ NoDocument

\* ScientificDocumentFormatter(use_spacy) and a document for it; added lists the
\* arguments of the add_processor calls made so far
InitDocument ==
    /\ \E use_spacy \in BOOLEAN : processors = ScientificDocumentFormatter(use_spacy)
    /\ added = <<>>
    /\ document \in Documents
    /\ args = DefaultArgs
    /\ text = <<>>
    /\ sents = <<>>
    /\ fmt = "markdown"
    /\ line_width = DefaultLineWidth
    /\ nlp = FALSE
    /\ ret = NoRet
    /\ seen = {}

\* formatter.add_processor(processor); what was returned for the list as it was
\* is forgotten
CallAddProcessor ==
    /\ Len(added) < MaxAdds
    /\ \E processor \in CustomProcessors :
           /\ processors' = add_processor(processors, processor)
           /\ added' = Append(added, processor)
    /\ ret' = NoRet
    /\ UNCHANGED <<text, sents, fmt, line_width, nlp, seen, document, args>>

\* formatter.format_document(document, **kwargs)
CallFormatDocument ==
    /\ ret.format_document = <<>>
    /\ \E kwargs \in KwargsPool :
           LET r == format_document(processors, document, kwargs)
           IN  ret' = [ret EXCEPT !.format_document =
                          <<[kwargs |-> kwargs, result |-> r.result,
                             processed |-> r.processed]>>]
    /\ UNCHANGED <<text, sents, fmt, line_width, nlp, seen, processors, added, document,
                   args>>

\* formatter.get_processor_info()
CallGetProcessorInfo ==
    /\ ret.processor_info = <<>>
    /\ ret' = [ret EXCEPT !.processor_info = <<get_processor_info(processors)>>]
    /\ UNCHANGED <<text, sents, fmt, line_width, nlp, seen, processors, added, document,
                   args>>

\* the command line with its arguments and the text of its input
InitMain ==
    /\ args \in ArgsPool
    /\ text \in CliTexts
    /\ fmt = args.format
    /\ line_width = args.line_width
    /\ sents = <<>>
    /\ nlp = FALSE
    /\ ret = NoRet
    /\ seen = {}
    /\ processors = ScientificDocumentFormatter(TRUE)
    /\ added = <<>>
    /\ document = Str(text)

\* main()
CallMain ==
    /\ ret.main = <<>>
    /\ ret' = [ret EXCEPT !.main = <<main(args, text)>>]
    /\ UNCHANGED <<text, sents, fmt, line_width, nlp, seen, processors, added, document,
                   args>>

NextDocument == CallAddProcessor \/ CallFormatDocument \/ CallGetProcessorInfo

NextMain == CallMain

NextAnalyze == CallAnalyze \/ CallBasicFormat

NextCalls == CallBasicFormat \/ CallSpacyFormat \/ NextInput

NextGroup == CallGroupByTopic \/ CallSmartGrouping

NextFormat == CallBasicFormat \/ CallSpacyFormat

Init == InitAnalyze \/ InitGroup \/ InitFormat \/ InitCalls \/ InitDocument \/ InitMain

Next == CallAnalyze \/ CallBasicFormat \/ CallSpacyFormat \/ CallGroupByTopic
        \/ CallSmartGrouping \/ NextInput \/ CallAddProcessor \/ CallFormatDocument
        \/ CallGetProcessorInfo \/ CallMain

SpecAnalyze == InitAnalyze /\ [][NextAnalyze]_vars

SpecGroup == InitGroup /\ [][NextGroup]_vars

SpecFormat == InitFormat /\ [][NextFormat]_vars

SpecCalls == InitCalls /\ [][NextCalls]_vars

SpecDocument == InitDocument /\ [][NextDocument]_vars

SpecMain == InitMain /\ [][NextMain]_vars

Spec == Init /\ [][Next]_vars

(***************************************************************************)
(* Properties                                                              *)
(***************************************************************************)
\* the groups of _smart_sentence_grouping before the merge pass
ScanGroups == SmartLoop(sents, 1, <<>>, <<>>)

\* result.split('\n\n'): the paragraphs of an output
RECURSIVE SplitBlocks(_, _)
SplitBlocks(out, k) ==
    IF k + 1 > Len(out) THEN <<out>>
    ELSE IF out[k] = "\n" /\ out[k + 1] = "\n"
    THEN <<SubSeq(out, 1, k - 1)>> \o SplitBlocks(SubSeq(out, k + 2, Len(out)), 1)
    ELSE SplitBlocks(out, k + 1)

\* the non-blank paragraphs of an output
Paragraphs(out) == SelectSeq(SplitBlocks(out, 1), LAMBDA b : Strip(b) # <<>>)

\* a block without its whitespace, line breaks and emphasis markup
Squash(b) ==
    SelectSeq(b, LAMBDA t : ~IsSpace(t) /\ t \notin {"**", "<strong>", "</strong>"})

\* the labels of the '### LABEL' header lines of a markdown output, in order
RECURSIVE MarkdownHeaders(_)
MarkdownHeaders(out) ==
    IF Len(out) < 3 THEN <<>>
    ELSE IF out[1] = "###" /\ out[2] = " " THEN <<out[3]>> \o MarkdownHeaders(Tail(out))
    ELSE MarkdownHeaders(Tail(out))

\* some header pattern matches somewhere in s
SomeHeaderMatch(s) ==
    \E n \in 1..Len(SECTION_PATTERNS) : \E k \in 1..Len(s) :
        HeaderMatchEnd(s, k, SECTION_PATTERNS[n].words) # 0

\* C1: both groupers return a partition of the input sentence list: the groups,
\* concatenated in order, are exactly the input (nothing dropped, duplicated or
\* reordered), the merge pass included.
C1_GroupsPartitionInput ==
    /\ ret.group_topic # <<>> => Concat(ret.group_topic[1]) = Texts(sents)
    /\ ret.group_smart # <<>> => Concat(ret.group_smart[1]) = sents

\* both groupers ran on more than 4 sentences, both split the input, and the merge
\* pass changed the scan's groups
C1_Witness ==
    /\ Len(sents) > 4
    /\ ret.group_topic # <<>> /\ Len(ret.group_topic[1]) > 1
    /\ ret.group_smart # <<>> /\ Len(ret.group_smart[1]) > 1
    /\ ret.group_smart[1] # ScanGroups

\* C2: the result of the discourse-aware grouper holds no group of exactly one
\* sentence, except possibly the last group.
C2_NoInteriorSingleton ==
    ret.group_smart # <<>> =>
        \A i \in 1..(Len(ret.group_smart[1]) - 1) : Len(ret.group_smart[1][i]) # 1

\* the scan left a one-sentence group that is not the last, and the grouper returned
C2_Witness ==
    /\ Len(sents) > 4
    /\ ret.group_smart # <<>>
    /\ \E i \in 1..(Len(ScanGroups) - 1) : Len(ScanGroups[i]) = 1

C4_FallbackEqualsBasic ==
    (~nlp /\ ret.spacy_format # <<>>) =>
        /\ ret.basic_format # <<>> => ret.spacy_format[1] = ret.basic_format[1]
        /\ Strip(text) # <<>> => ret.spacy_format[1] # <<>>

\* both formatters ran without the NLP capability at the narrow width, and the output
\* is wrapped over several lines
C4_Witness ==
    /\ ~nlp
    /\ line_width = NarrowWidth
    /\ ret.spacy_format # <<>> /\ ret.basic_format # <<>>
    /\ \E k \in 1..Len(ret.spacy_format[1]) : ret.spacy_format[1][k] = "\n"

\* C5: on the NLP-assisted path, every sentence of an unstructured abstract, other than
\* the first, that starts with a discourse marker begins a new paragraph of the output,
\* so such an input gives more than one paragraph.
C5_MarkerBeginsParagraph ==
    (nlp /\ ret.spacy_format # <<>> /\ ~_has_section_headers(text)) =>
        \A k \in 2..Len(sents) :
            _starts_with_discourse_marker(Strip(sents[k].text)) =>
                LET pars == Paragraphs(ret.spacy_format[1])
                    head == Squash(Strip(sents[k].text))
                IN  /\ Len(pars) > 1
                    /\ \E n \in 2..Len(pars) :
                           SubSeq(Squash(pars[n]), 1, Len(head)) = head

\* C6: with at least one header match, the section spans [start_pos, end_pos) and the
\* leading span [0, first start_pos) are non-overlapping and cover [0, len(text)):
\* each end_pos is the next start_pos and the last end_pos is len(text).
C6_SectionSpansTile ==
    (ret.analyze # <<>> /\ ret.analyze[1].sections # <<>>) =>
        LET secs == ret.analyze[1].sections
        IN  /\ secs[1].start_pos >= 0
            /\ \A i \in 1..Len(secs) : secs[i].start_pos < secs[i].end_pos
            /\ \A i \in 1..(Len(secs) - 1) : secs[i].end_pos = secs[i + 1].start_pos
            /\ secs[Len(secs)].end_pos = Len(text)

\* analysis found two sections or more behind a leading span
C6_Witness ==
    /\ ret.analyze # <<>>
    /\ Len(ret.analyze[1].sections) >= 2
    /\ ret.analyze[1].sections[1].start_pos > 0

\* C7: the content of section i is the text from the end of header i's matched text
\* up to the start of header i+1 (the end of the text for the last one), stripped;
\* no header text lies in it.
C7_ContentAfterHeader ==
    ret.analyze # <<>> =>
        LET hs   == ret.analyze[1].section_headers
            secs == ret.analyze[1].sections
        IN  \A i \in 1..Len(secs) :
                /\ secs[i].content =
                       Strip(Slice(text, hs[i].pos + Len(hs[i].header_text),
                                   IF i < Len(hs) THEN hs[i + 1].pos ELSE Len(text)))
                /\ ~SomeHeaderMatch(secs[i].content)

\* analysis found a section with content that is followed by another section
C7_Witness ==
    /\ ret.analyze # <<>>
    /\ \E i \in 1..(Len(ret.analyze[1].sections) - 1) :
           ret.analyze[1].sections[i].content # <<>>

\* C8: one section per header match, in ascending start order, each with its header's
\* label; 'BACKGROUND: A. METHODS: B. RESULTS: C.' gives background, methods, results
\* with contents 'A.', 'B.', 'C.'; the markdown output of AbstractFormatter carries one
\* '### LABEL' line per section, in that order.
C8_OneSectionPerHeader ==
    /\ ret.analyze # <<>> =>
           LET hs   == ret.analyze[1].section_headers
               secs == ret.analyze[1].sections
           IN  /\ Len(secs) = Len(hs)
               /\ \A i \in 1..Len(secs) :
                      /\ secs[i].section_type = hs[i].section_type
                      /\ secs[i].start_pos = hs[i].pos
               /\ \A i \in 1..(Len(secs) - 1) : secs[i].start_pos < secs[i + 1].start_pos
    /\ (ret.analyze # <<>> /\ text = ExampleSections) =>
           /\ [i \in 1..Len(ret.analyze[1].sections) |->
                  ret.analyze[1].sections[i].section_type]
                  = <<"background", "methods", "results">>
           /\ [i \in 1..Len(ret.analyze[1].sections) |-> ret.analyze[1].sections[i].content]
                  = << <<"A", ".">>, <<"B", ".">>, <<"C", ".">> >>
    /\ (ret.analyze # <<>> /\ ret.basic_format # <<>> /\ fmt = "markdown") =>
           MarkdownHeaders(ret.basic_format[1])
               = [i \in 1..Len(ret.analyze[1].sections) |->
                      Upper(ret.analyze[1].sections[i].section_type)]

\* the example text was analysed and formatted as markdown
C8_Witness ==
    /\ text = ExampleSections
    /\ fmt = "markdown"
    /\ ret.analyze # <<>> /\ ret.basic_format # <<>>

\* C9: has_structured_sections is true exactly when there is a header match; with no
\* header match the flag is false and the section list is empty.
C9_FlagIffHeaders ==
    ret.analyze # <<>> =>
        /\ ret.analyze[1].has_structured_sections <=> (ret.analyze[1].section_headers # <<>>)
        /\ ret.analyze[1].has_structured_sections <=> SomeHeaderMatch(text)
        /\ ~SomeHeaderMatch(text) =>
               /\ ~ret.analyze[1].has_structured_sections
               /\ ret.analyze[1].sections = <<>>

\* a text that holds a header keyword, but no header match, was analysed
C9_Witness ==
    /\ ret.analyze # <<>>
    /\ \E k \in 1..Len(text) : text[k] = "RESULTS"
    /\ ~ret.analyze[1].has_structured_sections

\* C10 as stated: an empty sentence list gives zero groups from either grouper.
C10_EmptyInputNoGroups ==
    sents = <<>> =>
        /\ ret.group_topic # <<>> => ret.group_topic[1] = <<>>
        /\ ret.group_smart # <<>> => ret.group_smart[1] = <<>>

\* C10, amended: an empty sentence list gives exactly one group, which is empty, from
\* either grouper (and nothing is raised).
C10_EmptyInputOneEmptyGroup ==
    sents = <<>> =>
        /\ ret.group_topic # <<>> => ret.group_topic[1] = << <<>> >>
        /\ ret.group_smart # <<>> => ret.group_smart[1] = << <<>> >>

\* both groupers ran on the empty sentence list
C10_Witness ==
    /\ sents = <<>>
    /\ ret.group_topic # <<>> /\ ret.group_smart # <<>>

\* the text in front of the first header match of the analysed text
LeadingText == Slice(text, 0, ret.analyze[1].sections[1].start_pos)

\* the analysed text has a header match that does not start at offset 0, and
\* AbstractFormatter has formatted it
LeadingCase ==
    /\ ret.analyze # <<>> /\ ret.basic_format # <<>>
    /\ ret.analyze[1].sections # <<>>
    /\ ret.analyze[1].sections[1].start_pos > 0

\* C11 as stated: whenever the first header match starts at an offset > 0, the output
\* of AbstractFormatter.format_abstract opens with an unlabeled block holding the text
\* before that header, and the first section's header follows it.
C11_LeadingTextEmitted ==
    LeadingCase =>
        LET blocks == SplitBlocks(ret.basic_format[1], 1)
        IN  /\ Len(blocks) >= 2
            /\ Strip(blocks[1]) # <<>>
            /\ Squash(blocks[1]) = Squash(LeadingText)
            /\ blocks[2] = _format_section_header(ret.analyze[1].sections[1].section_type, fmt)

\* C11, amended: when the first header match starts at an offset > 0 and the text
\* before it is not only whitespace, the output opens with an unlabeled block holding
\* that text and the first section's header follows it; when the text before it is
\* only whitespace, no introductory block is emitted and the output opens with the
\* first section's header.
C11_NonBlankLeadingTextEmitted ==
    LeadingCase =>
        LET blocks == SplitBlocks(ret.basic_format[1], 1)
            header == _format_section_header(ret.analyze[1].sections[1].section_type, fmt)
        IN  IF Strip(LeadingText) # <<>>
            THEN /\ Len(blocks) >= 2
                 /\ Squash(blocks[1]) = Squash(LeadingText)
                 /\ \A k \in 1..Len(blocks[1]) : blocks[1][k] \notin {"###", "<h3>", "="}
                 /\ blocks[2] = header
            ELSE blocks[1] = header

\* a text with words in front of its first header was analysed and formatted
C11_Witness ==
    /\ LeadingCase
    /\ Strip(LeadingText) # <<>>

\* C12: no two matches of the header list returned by find_section_headers overlap:
\* the ranges [start, start + len(matched text)) of any two matches are disjoint.
C12_HeadersDisjoint ==
    ret.analyze # <<>> =>
        LET hs == ret.analyze[1].section_headers
        IN  \A i \in 1..Len(hs) : \A j \in 1..Len(hs) :
                i # j =>
                    \/ hs[i].pos + Len(hs[i].header_text) <= hs[j].pos
                    \/ hs[j].pos + Len(hs[j].header_text) <= hs[i].pos

\* the text holds 'LABEL:' for the section label l
ContainsLabel(s, l) ==
    \E k \in 1..(Len(s) - 1) : s[k] = Upper(l) /\ s[k + 1] = ":"

\* the text holds 'LABEL:' for the section label l, LABEL not glued to a word before it
ContainsWholeLabel(s, l) ==
    \E k \in 1..(Len(s) - 1) :
        /\ s[k] = Upper(l) /\ s[k + 1] = ":"
        /\ (k = 1 \/ ~IsWordLex(s[k - 1]))

\* the labels carried by the matches of the analysed text
FoundLabels ==
    {ret.analyze[1].section_headers[i].section_type :
        i \in 1..Len(ret.analyze[1].section_headers)}

\* C13 as stated: a text that holds 'LABEL:' for each of the 11 section labels gives
\* at least one match carrying each of the 11 labels.
C13_AllLabelsFound ==
    (ret.analyze # <<>> /\ \A l \in SectionType : ContainsLabel(text, l)) =>
        SectionType \subseteq FoundLabels

\* C13, amended: for each of the 10 section labels other than unknown, a text that
\* holds 'LABEL:' as a whole word (not glued to a word character before it) gives at
\* least one match carrying that label; no match carries the label unknown.
C13_PatternLabelsFound ==
    ret.analyze # <<>> =>
        /\ \A l \in SectionType \ {"unknown"} :
               ContainsWholeLabel(text, l) => l \in FoundLabels
        /\ "unknown" \notin FoundLabels

\* the text with all 11 labels was analysed
C13_Witness ==
    /\ ret.analyze # <<>>
    /\ \A l \in SectionType : ContainsWholeLabel(text, l)

RECURSIVE Words(_)
Words(s) ==
    LET t == LStrip(s)
        n == CHOOSE n \in 0..Len(t) :
                 /\ \A k \in 1..n : ~IsSpace(t[k])
                 /\ (n = Len(t) \/ IsSpace(t[n + 1]))
    IN  IF t = <<>> THEN <<>>
        ELSE <<SubSeq(t, 1, n)>> \o Words(SubSeq(t, n + 1, Len(t)))

\* AbstractFormatter routes the text to its unstructured path
BasicUnstructured == find_section_headers(text) = <<>>

\* SpacyAbstractFormatter routes the text to an unstructured path
SpacyUnstructured == IF nlp THEN ~_has_section_headers(text) ELSE BasicUnstructured

\* C15: on unstructured input the whitespace-delimited word sequence of the plain
\* output of AbstractFormatter, and of SpacyAbstractFormatter, equals the word
\* sequence of the input.
C15_WordsPreserved ==
    fmt = "plain" =>
        /\ (ret.basic_format # <<>> /\ BasicUnstructured) =>
               Words(ret.basic_format[1]) = Words(text)
        /\ (ret.spacy_format # <<>> /\ SpacyUnstructured) =>
               Words(ret.spacy_format[1]) = Words(text)

\* the lexemes sub lie side by side somewhere in s
Contains(s, sub) ==
    \E k \in 0..(Len(s) - Len(sub)) : SubSeq(s, k + 1, k + Len(sub)) = sub

\* C16: in markdown, AbstractFormatter.format_abstract wraps in '**' every upper-case
\* abbreviation that is followed by its parenthesized expansion ('MRI (Magnetic
\* Resonance Imaging)' gives '**MRI**') and every percentage value ('95%' gives
\* '**95%**').  Checked at the default line width, where nothing is wrapped.
C16_MarkdownHighlights ==
    (fmt = "markdown" /\ line_width = DefaultLineWidth /\ ret.basic_format # <<>>) =>
        /\ \A k \in 1..(Len(text) - 2) :
               (UpperLetters(text[k]) >= 2 /\ text[k + 1] = " " /\ text[k + 2] = "(") =>
                   Contains(ret.basic_format[1], <<"**", text[k], "**">>)
        /\ \A k \in 1..(Len(text) - 1) :
               (IsDigits(text[k]) /\ text[k + 1] = "%") =>
                   Contains(ret.basic_format[1], <<"**", text[k], "%", "**">>)

\* the 1-based indices of the sentences that open a group of the group list
GroupStarts(groups) ==
    {Len(Concat(SubSeq(groups, 1, i - 1))) + 1 : i \in 1..Len(groups)}

\* the open group when sentence k (k > 1) of the list is looked at, for a group list
\* with the given starts: the sentences from the last start before k up to k - 1
OpenGroup(list, starts, k) ==
    LET from == CHOOSE a \in starts : a < k /\ \A b \in starts : b < k => b <= a
    IN  SubSeq(list, from, k - 1)

\* the lower-cased texts of the organization, product, location and person entities
KeptEntities(sent) == {Lower(e.text) : e \in {x \in sent.ents : x.label \in EntityLabels}}

\* entity shift: both entity sets non-empty and overlap / union < 0.3
EntityShift(prev, curr) ==
    /\ KeptEntities(prev) # {} /\ KeptEntities(curr) # {}
    /\ 10 * Cardinality(KeptEntities(prev) \cap KeptEntities(curr))
           < 3 * Cardinality(KeptEntities(prev) \cup KeptEntities(curr))

\* the five break conditions for a sentence looked at with the open group
BreakCondition(sent, open) ==
    \/ _starts_with_discourse_marker(Strip(sent.text)) /\ open # <<>>
    \/ _is_topic_transition(Strip(sent.text)) /\ Len(open) >= 2
    \/ open # <<>> /\ EntityShift(open[Len(open)], sent) /\ Len(open) >= 3
    \/ /\ _is_results_indicator(Strip(sent.text))
       /\ open # <<>>
       /\ ~_is_results_indicator(Join(<<" ">>, Texts(open)))
    \/ Len(open) >= 4

\* C17: in the scan of more than 4 sentences, before the merge pass, a sentence after
\* the first opens a new group exactly when one of the five break conditions holds
\* for it and the open group, and joins the open group otherwise; the first sentence
\* opens the first group.
C17_BreakDecision ==
    ret.scan_groups # <<>> =>
        LET groups == ret.scan_groups[1]
            starts == GroupStarts(groups)
        IN  /\ Concat(groups) = sents
            /\ \A i \in 1..Len(groups) : groups[i] # <<>>
            /\ \A k \in 2..Len(sents) :
                   (k \in starts) <=> BreakCondition(sents[k], OpenGroup(sents, starts, k))

\* the scan broke before a sentence for its entity shift alone, after three sentences
C17_Witness ==
    /\ ret.scan_groups # <<>>
    /\ \E k \in GroupStarts(ret.scan_groups[1]) :
           /\ k > 1
           /\ EntityShift(sents[k - 1], sents[k])
           /\ ~_starts_with_discourse_marker(sents[k].text)
           /\ ~_is_topic_transition(sents[k].text)
           /\ ~_is_results_indicator(sents[k].text)
           /\ Len(OpenGroup(sents, GroupStarts(ret.scan_groups[1]), k)) = 3
           /\ KeptEntities(sents[k - 1]) \cap KeptEntities(sents[k]) # {}

\* the sentence starts with 'We ', 'Our ', 'The study', 'This study', 'Results' or
\* 'In conclusion', whatever the case of its letters
MatchesTopicStarter(sentence) ==
    \/ Len(sentence) >= 2 /\ Lower(sentence[1]) \in {"we", "our"} /\ sentence[2] = " "
    \/ /\ Len(sentence) >= 3
       /\ Lower(sentence[1]) \in {"the", "this"}
       /\ sentence[2] = " "
       /\ Lower(sentence[3]) = "study"
    \/ Len(sentence) >= 1 /\ Lower(sentence[1]) = "results"
    \/ /\ Len(sentence) >= 3
       /\ Lower(sentence[1]) = "in"
       /\ sentence[2] = " "
       /\ Lower(sentence[3]) = "conclusion"

\* C18: in the heuristic grouper on more than 3 sentences, a group starts at sentence
\* k > 1 exactly when sentence k matches a topic-starter pattern; the first sentence
\* opens the first group, no sentence is lost and no group is empty.
C18_TopicBoundaries ==
    (ret.group_topic # <<>> /\ Len(sents) > 3) =>
        LET groups == ret.group_topic[1]
        IN  /\ Concat(groups) = Texts(sents)
            /\ \A i \in 1..Len(groups) : groups[i] # <<>>
            /\ groups[1][1] = sents[1].text
            /\ GroupStarts(groups) =
                   {1} \cup {k \in 2..Len(sents) : MatchesTopicStarter(sents[k].text)}

\* the heuristic grouper ran on more than 3 sentences of which the first and a later
\* one are topic starters and another later one is not
C18_Witness ==
    /\ ret.group_topic # <<>>
    /\ Len(sents) > 3
    /\ MatchesTopicStarter(sents[1].text)
    /\ \E k \in 2..Len(sents) : MatchesTopicStarter(sents[k].text)
    /\ \E k \in 2..Len(sents) : ~MatchesTopicStarter(sents[k].text)

\* the starts removed by a left-to-right walk over the group list from group i on: a
\* one-sentence group that is not the last removes the start of the group after it,
\* and the walk goes on behind that group
RECURSIVE RemovedStarts(_, _)
RemovedStarts(groups, i) ==
    IF i >= Len(groups) THEN {}
    ELSE IF Len(groups[i]) = 1
    THEN {Len(Concat(SubSeq(groups, 1, i))) + 1} \cup RemovedStarts(groups, i + 2)
    ELSE RemovedStarts(groups, i + 1)

\* C19: the merge pass only removes group boundaries: the starts left are the starts
\* of the scan minus those removed by the left-to-right walk; a start is removed only
\* if the scan's group before it has exactly one sentence, a start behind a group of
\* two or more sentences stays, and no start is added or moved.
C19_MergeRemovesBoundaries ==
    (ret.scan_groups # <<>> /\ ret.group_smart # <<>>) =>
        LET scan   == ret.scan_groups[1]
            after  == GroupStarts(ret.group_smart[1])
            before == GroupStarts(scan)
        IN  /\ Concat(ret.group_smart[1]) = Concat(scan)
            /\ after \subseteq before
            /\ after = before \ RemovedStarts(scan, 1)
            /\ \A i \in 2..Len(scan) :
                   LET start == Len(Concat(SubSeq(scan, 1, i - 1))) + 1
                   IN  /\ Len(scan[i - 1]) >= 2 => start \in after
                       /\ start \notin after => Len(scan[i - 1]) = 1

\* the scan left three one-sentence groups in a row: the first absorbed the second,
\* which was not examined again, so the third one's start is still there
C19_Witness ==
    /\ ret.scan_groups # <<>> /\ ret.group_smart # <<>>
    /\ \E i \in 1..(Len(ret.scan_groups[1]) - 2) :
           /\ Len(ret.scan_groups[1][i]) = 1
           /\ Len(ret.scan_groups[1][i + 1]) = 1
           /\ Len(ret.scan_groups[1][i + 2]) = 1
           /\ Len(Concat(SubSeq(ret.scan_groups[1], 1, i))) + 1
                  \notin GroupStarts(ret.group_smart[1])
           /\ Len(Concat(SubSeq(ret.scan_groups[1], 1, i + 1))) + 1
                  \in GroupStarts(ret.group_smart[1])

\* the lexemes of s from index k (1-based) on are the keyword, whatever the case
KeywordAt(s, k, words) ==
    /\ k + Len(words) - 1 <= Len(s)
    /\ \A j \in 1..Len(words) : Lower(s[k + j - 1]) = Lower(words[j])

\* C20 as stated: every reported header match is a header keyword immediately
\* followed by ':' or '.', with nothing between the keyword and the mark.
C20_HeaderPunctuationAdjacent ==
    ret.analyze # <<>> =>
        \A i \in 1..Len(ret.analyze[1].section_headers) :
            LET h == ret.analyze[1].section_headers[i]
            IN  \E n \in 1..Len(SECTION_PATTERNS) :
                    /\ SECTION_PATTERNS[n].type = h.section_type
                    /\ Len(h.header_text) = Len(SECTION_PATTERNS[n].words) + 1
                    /\ KeywordAt(h.header_text, 1, SECTION_PATTERNS[n].words)
                    /\ h.header_text[Len(h.header_text)] \in {":", "."}

\* C20, amended: a header match is reported exactly where a header keyword, standing
\* as a whole word, is followed by any amount of whitespace (none included) and then
\* by ':' or '.'; the matched text runs from the keyword to that mark.
C20_HeaderPunctuationAfterSpace ==
    ret.analyze # <<>> =>
        LET hs == ret.analyze[1].section_headers
        IN  /\ \A i \in 1..Len(hs) :
                   \E n \in 1..Len(SECTION_PATTERNS) :
                       LET words == SECTION_PATTERNS[n].words
                           rest  == SubSeq(hs[i].header_text, Len(words) + 1,
                                           Len(hs[i].header_text))
                       IN  /\ SECTION_PATTERNS[n].type = hs[i].section_type
                           /\ hs[i].header_text =
                                  SubSeq(text, hs[i].pos + 1,
                                         hs[i].pos + Len(hs[i].header_text))
                           /\ KeywordAt(hs[i].header_text, 1, words)
                           /\ hs[i].pos = 0 \/ ~IsWordLex(text[hs[i].pos])
                           /\ rest # <<>>
                           /\ rest[Len(rest)] \in {":", "."}
                           /\ \A j \in 1..(Len(rest) - 1) : IsSpace(rest[j])
            /\ \A n \in 1..Len(SECTION_PATTERNS) : \A k \in 1..Len(text) :
                   \A m \in 0..Len(text) :
                       LET words == SECTION_PATTERNS[n].words
                           e     == k + Len(words)
                       IN  (/\ KeywordAt(text, k, words)
                            /\ k = 1 \/ ~IsWordLex(text[k - 1])
                            /\ e + m <= Len(text)
                            /\ \A j \in e..(e + m - 1) : IsSpace(text[j])
                            /\ text[e + m] \in {":", "."})
                           => \E i \in 1..Len(hs) :
                                  /\ hs[i].pos = k - 1
                                  /\ hs[i].section_type = SECTION_PATTERNS[n].type
                                  /\ Len(hs[i].header_text) = Len(words) + m + 1

\* a match with whitespace between the keyword and the mark was reported
C20_Witness ==
    /\ ret.analyze # <<>>
    /\ \E i \in 1..Len(ret.analyze[1].section_headers) :
           LET t == ret.analyze[1].section_headers[i].header_text
           IN  Len(t) >= 3 /\ IsSpace(t[Len(t) - 1])

\* C21: every group returned by _smart_sentence_grouping for more than 4 sentences,
\* the merge pass included, holds at most 4 sentences.
C21_GroupsAtMostFour ==
    (ret.group_smart # <<>> /\ Len(sents) > 4) =>
        \A i \in 1..Len(ret.group_smart[1]) : Len(ret.group_smart[1][i]) <= 4

\* the positions, in list order, of the processors whose can_process accepts the document
Accepting == {i \in 1..Len(processors) : can_process(processors[i], document)}

\* C22: format_document returns what the first processor in list order that accepts
\* the document returns from process, process is called on that processor and on no
\* other, and the 'No suitable processor found' message is returned exactly when no
\* processor accepts the document.
C22_FirstAcceptingHandles ==
    ret.format_document # <<>> =>
        LET fd == ret.format_document[1]
        IN  IF Accepting = {}
            THEN fd.result = NoSuitableProcessor /\ fd.processed = <<>>
            ELSE LET first == CHOOSE i \in Accepting : \A j \in Accepting : i <= j
                 IN  /\ fd.result = process(processors[first], document, fd.kwargs)
                     /\ fd.processed = <<processors[first]>>
                     /\ fd.result # NoSuitableProcessor

\* a document refused by the first processor of the list and accepted by two later
\* ones of different classes has been dispatched
C22_Witness ==
    /\ ret.format_document # <<>>
    /\ 1 \notin Accepting
    /\ \E i, j \in Accepting : processors[i].cls # processors[j].cls
    /\ ret.format_document[1].result.by # ""

\* the added processors, the most recently added first
AddedFirst == [i \in 1..Len(added) |-> added[Len(added) + 1 - i]]

\* the positions in added of the added processors that accept the document
AddedAccepting == {j \in 1..Len(added) : can_process(added[j], document)}

\* C23: after any sequence of add_processor calls the list is the added processors, the
\* most recently added first, followed by the two default processors (abstract, then
\* full-text); a document accepted by an added processor is handled by the most recently
\* added one that accepts it; get_processor_info reports 2 + the number of add_processor
\* calls as total_processors.
C23_AddedProcessorsFirst ==
    /\ \E use_spacy \in BOOLEAN :
           processors = AddedFirst \o ScientificDocumentFormatter(use_spacy)
    /\ (ret.format_document # <<>> /\ AddedAccepting # {}) =>
           LET latest == CHOOSE j \in AddedAccepting : \A k \in AddedAccepting : k <= j
           IN  ret.format_document[1].processed = <<added[latest]>>
    /\ ret.processor_info # <<>> =>
           /\ ret.processor_info[1].total_processors = 2 + Len(added)
           /\ ret.processor_info[1].processors =
                  [i \in 1..Len(added) |-> added[Len(added) + 1 - i].cls]
                      \o <<"AbstractProcessor", "FullTextProcessor">>

\* two different processors that both accept the document have been added, and
\* format_document and get_processor_info have been called
C23_Witness ==
    /\ Len(added) >= 2
    /\ \E j, k \in AddedAccepting : j < k /\ added[j] # added[k]
    /\ ret.format_document # <<>>
    /\ ret.processor_info # <<>>

\* C24: for every text, SpacyAbstractFormatter._has_section_headers(text) is true
\* exactly when analyze_structure(text)['has_structured_sections'] is true, so both
\* formatters route the text to their structured path or neither does.
C24_DetectorsAgree ==
    ret.analyze # <<>> =>
        (_has_section_headers(text) <=> ret.analyze[1].has_structured_sections)

\* what sentence k of the document adds to a section: the sentence without the header
\* that opens it
SentenceBody(k) ==
    LET sentence == Strip(sents[k].text)
        header_match == SpacyHeaderMatch(sentence)
    IN  IF header_match.matched THEN header_match.remaining_text ELSE sentence

\* C25: when SpacyAbstractFormatter, with the NLP capability, routes a text to its
\* structured path, no content is lost: a non-blank input never gives an empty output,
\* and every sentence of the input is in the output (in the plain format at the default
\* width, where the output holds nothing but the sections' contents, the words of the
\* output are the words of the sentences in order, headers left out).
C25_StructuredKeepsContent ==
    (nlp /\ ret.spacy_format # <<>> /\ _has_section_headers(text)) =>
        /\ Strip(text) # <<>> => Strip(ret.spacy_format[1]) # <<>>
        /\ (fmt = "plain" /\ line_width = DefaultLineWidth) =>
               Words(ret.spacy_format[1])
                   = Concat([k \in 1..Len(sents) |-> Words(SentenceBody(k))])

\* C26: with the default processors, every non-blank string document is accepted by
\* exactly one of AbstractProcessor and FullTextProcessor, so format_document never
\* returns the 'No suitable processor found' message for it, whatever its word count.
C26_StringAlwaysHandled ==
    (/\ ret.format_document # <<>>
     /\ added = <<>>
     /\ document.type = "str"
     /\ Strip(document.text) # <<>>) =>
        /\ Cardinality(Accepting) = 1
        /\ ret.format_document[1].result # NoSuitableProcessor

\* C27: main exits non-zero only for a missing input file or an empty or
\* whitespace-only input; for every other input the analyzer-only mode prints (or
\* writes) an analysis report and exits with status 0, also when the text holds no
\* '.', '!' or '?'.
C27_ErrorOnlyForMissingOrEmpty ==
    ret.main # <<>> =>
        LET run == ret.main[1]
            no_input == args.input = "missing" \/ Strip(text) = <<>>
        IN  /\ run.exit # 0 => no_input
            /\ (args.analyze /\ ~no_input) =>
                   /\ run.exit = 0
                   /\ run.stdout \o run.file = format_analysis(analyze_structure(text)).report
                   /\ run.stdout \o run.file # <<>>

====
